---- MODULE Spec2Model ----
(***************************************************************************)
(* notionctl: the resilient API transport (internal/notion Client.Do) and  *)
(* the change-watch reconciler (cmd sync watch).                           *)
(*                                                                         *)
(* Durations are in milliseconds.  Wall-clock instants of the watch        *)
(* reconciler are counted in ticks, TicksPerSecond of them to a second.    *)
(***************************************************************************)
EXTENDS Integers, Sequences, FiniteSets, TLC

(***************************************************************************)
(* Bounds of the model                                                     *)
(***************************************************************************)
\* largest ClientConfig.MaxRetries a caller passes (0 selects the default)
MaxCfgRetries == 1
\* time.Duration is a signed 64-bit count; the model keeps the wrap-around
\* of the conversion in parseRetryAfter at this (smaller) width, in ms
DurationBits == 21

\* instants are counted in ticks; RFC3339 text keeps whole seconds only
TicksPerSecond == 2
\* largest --lookback (ticks) and the ticks the wall clock advances in a run
MaxLookback == 1
MaxElapsed == 2
\* timer ticks taken up after the bootstrap (without / with the webhook
\* listener), and page requests of one Change Query
MaxPolls == 2
MaxHookPolls == 1
MaxPages == 2
\* HTTP requests the push endpoint receives in a run of the reconciler, and
\* in a run of the push-queue scenario
MaxRequests == 1
MaxDeliveries == 20

(***************************************************************************)
(* Program constants (part_006:23-38)                                      *)
(***************************************************************************)
defaultMaxRetries == 5
defaultBackoffInitialDelay == 500
backoffFactor == 2
maxBackoffDelay == 30000
Second == 1000
StatusOK == 200
StatusNoContent == 204
StatusMultipleChoices == 300
StatusTooManyRequests == 429
StatusInternalServerError == 500
StatusBadGateway == 502
StatusServiceUnavailable == 503
StatusGatewayTimeout == 504
\* part_000:95, and the net/http statuses of the webhook handler
webhookQueueSize == 16
StatusBadRequest == 400
StatusUnauthorized == 401
StatusMethodNotAllowed == 405

VARIABLES
    \* ---- Client.Do (one call) ----
    cfg,          \* Client.cfg after NewClient: [MaxRetries, BackoffBase]
    call,         \* the call's arguments: [hasBody, hasOut]
    ctxDone,      \* the call's context has been cancelled
    cpc,          \* position of Do: "start","wait","send","sleep","done"
    attempt,      \* loop variable of executeWithRetries
    lastErr,      \* lastErr of executeWithRetries
    ret,          \* the value Do returned (NoErr = nil)
    bodyAtStart,  \* req.Body is positioned at the first byte of payload
    sleepArg,     \* argument of the latest c.sleep call
    sleepLeft,    \* 1 while the running time.Sleep has time left, else 0
    hist,         \* observations: counters and the latest exchange
    \* ---- sync watch (one run of watchRuntime) ----
    opts,         \* syncWatchOptions after prepare
    now,          \* the latest reading of the wall clock, time.Now()
    clockEnd,     \* the instant the wall clock reaches by the end of the run
    wctxDone,     \* the command's context has been cancelled
    wpc,          \* position of run(): "start","bootstrap","fetch","loop","returned"
    wret,         \* the error run() returned (NoErr = nil)
    server,       \* webhook server: "off","listening","failed","closed"
    errCh,        \* rt.errCh, capacity 1
    deliveries,   \* rt.deliveries, capacity webhookQueueSize
    tickReady,    \* rt.ticker.C holds a tick
    lastPollEnd,  \* rt.lastPollEnd (0: zero time)
    lowerExclusiveLB, \* rt.lowerExclusiveLB
    fetch,        \* locals of the emitPoll / fetchChanges in progress
    whist,        \* observations: output stream, requests, responses
    \* ---- changes (one run of the command) ----
    changes,      \* arguments, position, window, pagination and result
    \* ---- fetchChanges (one call, against a remote that may never stop) ----
    drain,        \* position, cursor, counts and return values
    \* ---- expand.FirstLevel (one call) ----
    expand        \* arguments, goroutines, semaphore, requests and result

cvars == <<cfg, call, ctxDone, cpc, attempt, lastErr, ret, bodyAtStart,
           sleepArg, sleepLeft, hist>>

wvars == <<opts, now, clockEnd, wctxDone, wpc, wret, server, errCh, deliveries,
           tickReady, lastPollEnd, lowerExclusiveLB, fetch, whist>>

gvars == <<changes>>

hvars == <<drain, expand>>

vars == <<cvars, wvars, gvars, hvars>>

(***************************************************************************)
(* Values                                                                  *)
(***************************************************************************)
\* errors: kind names the fmt.Errorf / type that built it, status the HTTP
\* status it carries (0 if none), at the attempt that produced it (-1: none)
Err(kind, status, at) == [kind |-> kind, status |-> status, at |-> at]
NoErr == Err("nil", 0, -1)

\* two's-complement wrap of a Duration
DurationMod == 2 ^ DurationBits
WrapDuration(x) ==
    LET m == x % DurationMod
    IN  IF m >= DurationMod \div 2 THEN m - DurationMod ELSE m

\* largest N for which N seconds is a representable Duration
MaxDurationSeconds == (DurationMod \div 2 - 1) \div Second

\* Retry-After header values: absent, integer seconds, an HTTP date (val is
\* the ms from now until that date) or text that is neither
NoHeader == [kind |-> "none", val |-> 0]
RetryAfterHeaders ==
    {NoHeader, [kind |-> "junk", val |-> 0]}
    \cup [kind : {"int"},
          val : {0, 1, MaxDurationSeconds, MaxDurationSeconds + 1,
                 2 * (MaxDurationSeconds + 1) + 3}]
    \cup [kind : {"date"}, val : {-2000, 3000}]

\* jitter() in percent: randomFloat64(0.8, 1.2)
Jitters == {80, 119}

\* what c.http.Do hands back.  kind "neterr": reqErr != nil.  kind "resp":
\* a response.  Its body is [shape, status]: shape "readfail" (io.ReadAll
\* fails), "closefail" (Body.Close fails), "junk" (not the JSON of an
\* object), "object" (a JSON object whose "status" member is status, 0 if
\* it has none), "bad" (does not decode into out), "badclosefail" (neither
\* decodes nor closes), "ok".
Body(shape, status) == [shape |-> shape, status |-> status]
ErrorBodies ==
    {Body("readfail", 0), Body("closefail", 0), Body("junk", 0),
     Body("object", 0), Body("object", 400)}
SuccessBodies ==
    {Body("ok", 0), Body("bad", 0), Body("closefail", 0), Body("badclosefail", 0)}
Resp(status, retryAfter, body) ==
    [kind |-> "resp", status |-> status, retryAfter |-> retryAfter, body |-> body]
Responses ==
    {Resp(s, NoHeader, b) : s \in {200, 204}, b \in SuccessBodies}
    \cup {Resp(s, NoHeader, b) : s \in {304, 400, 404, 429, 500, 501, 502,
                                         503, 504, 599},
                                 b \in ErrorBodies}
    \cup {Resp(s, h, Body("object", 0)) : s \in {400, 429, 501, 503},
                                          h \in RetryAfterHeaders}
NetErr == [kind |-> "neterr", status |-> 0, retryAfter |-> NoHeader, body |-> Body("ok", 0)]
NoResp == [kind |-> "none", status |-> 0, retryAfter |-> NoHeader, body |-> Body("ok", 0)]
Outcomes == Responses \cup {NetErr}

Decision(err, retryAfter, retry) ==
    [err |-> err, retryAfter |-> retryAfter, retry |-> retry]

(***************************************************************************)
(* Pure functions of the transport                                         *)
(***************************************************************************)
\* variant: 504 left out of the retryable statuses
isRetryableStatus_No504(status) ==
    status \in {StatusTooManyRequests, StatusInternalServerError,
                StatusBadGateway, StatusServiceUnavailable}

isRetryableStatus(status) ==
    status \in {StatusTooManyRequests, StatusInternalServerError,
                StatusBadGateway, StatusServiceUnavailable,
                StatusGatewayTimeout}

\* strconv.Atoi, then time.Duration(seconds) * time.Second (which wraps);
\* else time.Parse(RFC1123) and time.Until; else 0
parseRetryAfter(resp) ==
    CASE resp.retryAfter.kind = "none" -> 0
      [] resp.retryAfter.kind = "int"  -> WrapDuration(resp.retryAfter.val * Second)
      [] resp.retryAfter.kind = "date" -> resp.retryAfter.val
      [] OTHER -> 0

\* *Error values have kind "Error"; the others are plain errors
decodeError(resp, at) ==
    IF resp.kind # "resp" THEN Err("nil response", 0, at)
    ELSE IF resp.body.shape = "readfail" THEN Err("read error response", 0, at)
    ELSE IF resp.body.shape = "closefail" THEN Err("close error response", 0, at)
    ELSE IF resp.body.shape = "junk" THEN Err("Error", resp.status, at)
    ELSE IF resp.body.status = 0 THEN Err("Error", resp.status, at)
    ELSE Err("Error", resp.body.status, at)

handleRequestError(ctxErr, at) ==
    IF ctxErr THEN Decision(Err("request context", 0, at), 0, FALSE)
    ELSE Decision(Err("do request", 0, at), 0, TRUE)

\* variant: a 2xx response is answered with a retry decision
handleSuccess_Retries(resp, hasOut, at) ==
    <<Decision(NoErr, 0, TRUE), FALSE>>

\* <<decision, closed>>
handleSuccess(resp, hasOut, at) ==
    IF hasOut /\ resp.status # StatusNoContent /\ resp.body.shape \in {"bad", "badclosefail"}
    THEN <<Decision(Err("decode response", 0, at), 0, FALSE), FALSE>>
    ELSE <<Decision(NoErr, 0, FALSE), FALSE>>

\* variant: every non-2xx status is retried
handleFailure_AlwaysRetry(resp, at) ==
    <<Decision(decodeError(resp, at), parseRetryAfter(resp), TRUE), TRUE>>

handleFailure(resp, at) ==
    IF isRetryableStatus(resp.status)
    THEN <<Decision(decodeError(resp, at), parseRetryAfter(resp), TRUE), TRUE>>
    ELSE <<Decision(decodeError(resp, at), 0, FALSE), TRUE>>

evaluateResponse(ctxErr, resp, hasOut, at) ==
    IF resp.kind = "neterr" THEN <<handleRequestError(ctxErr, at), TRUE>>
    ELSE IF resp.kind = "none"
         THEN <<Decision(Err("nil response", 0, at), 0, TRUE), TRUE>>
    ELSE IF resp.status >= StatusOK /\ resp.status < StatusMultipleChoices
         THEN handleSuccess(resp, hasOut, at)
    ELSE handleFailure(resp, at)

finalizeDecision(resp, decision, closed, at) ==
    IF closed \/ resp.kind # "resp" THEN decision
    ELSE IF resp.body.shape \in {"closefail", "badclosefail"}
         THEN [decision EXCEPT
                 !.err = IF decision.err # NoErr
                         THEN Err("joined close response body", decision.err.status, at)
                         ELSE Err("close response body", 0, at),
                 !.retry = FALSE]
    ELSE decision

\* variant: the jitter is applied to the server's delay too
backoffDelay_JitterOnRetryAfter(n, retryAfter, jitter) ==
    LET delay == IF retryAfter > 0 THEN (retryAfter * jitter) \div 100
                 ELSE (cfg.BackoffBase * (backoffFactor ^ n) * jitter) \div 100
    IN  IF delay > maxBackoffDelay THEN maxBackoffDelay ELSE delay

\* the argument backoff passes to c.sleep
backoffDelay(n, retryAfter, jitter) ==
    IF retryAfter > 0 THEN retryAfter
    ELSE LET delay == (cfg.BackoffBase * (backoffFactor ^ n) * jitter) \div 100
         IN  IF delay > maxBackoffDelay THEN maxBackoffDelay ELSE delay

(***************************************************************************)
(* NewClient and the call's start                                          *)
(***************************************************************************)
NewClient(c) ==
    [MaxRetries  |-> IF c.MaxRetries <= 0 THEN defaultMaxRetries ELSE c.MaxRetries,
     BackoffBase |-> IF c.BackoffBase <= 0 THEN defaultBackoffInitialDelay
                     ELSE c.BackoffBase]

\* observations of one call: HTTP attempts made, c.sleep calls, limiter
\* acquisitions, attempts that ended in a retryable outcome, the latest
\* outcome of c.http.Do, whether every attempt sent the body from its first
\* byte, whether sleep time elapsed with the context cancelled, and the
\* number of attempts made when the context was cancelled during a wait
\* between attempts (-1: it was not)
NoHist == [attempts |-> 0, sleeps |-> 0, acquired |-> 0, retryable |-> 0,
           last |-> NoResp, sentAtStart |-> TRUE, sleptCancelled |-> FALSE,
           cancelAt |-> -1]

\* outcomes the transport is to retry: 429, the transient 5xx statuses and
\* network errors of a live context
RetryableOutcome(o, cancelled) ==
    \/ o.kind = "neterr" /\ ~cancelled
    \/ o.kind = "resp" /\ o.status \in {429, 500, 502, 503, 504}

ClientInit ==
    /\ \E c \in [MaxRetries : 0..MaxCfgRetries, BackoffBase : {0, 20000}] :
          cfg = NewClient(c)
    /\ call \in [hasBody : BOOLEAN, hasOut : BOOLEAN]
    /\ ctxDone = FALSE
    /\ cpc = "start"
    /\ attempt = 0
    /\ lastErr = NoErr
    /\ ret = NoErr
    /\ bodyAtStart = TRUE
    /\ sleepArg = 0
    /\ sleepLeft = 0
    /\ hist = NoHist

(***************************************************************************)
(* Client.Do, one step per blocking point                                  *)
(***************************************************************************)
Return(err) ==
    /\ ret' = err
    /\ cpc' = "done"

\* Do: prepareRequest builds the request, or fails (resolve, json.Marshal)
ClientDo ==
    /\ cpc = "start"
    /\ \E ok \in BOOLEAN :
          IF ok THEN /\ cpc' = "wait"
                     /\ ret' = ret
                ELSE Return(Err("prepare request", 0, -1))
    /\ UNCHANGED <<cfg, call, ctxDone, attempt, lastErr, bodyAtStart,
                   sleepArg, sleepLeft, hist>>

\* variant: the reader is left where the attempt before stopped reading
resetRequestBody_KeepsReader(atStart) == atStart

\* resetRequestBody: req.Body = GetBody(), a new reader at the first byte of
\* payload
resetRequestBody(atStart) == TRUE

\* variant: only the first attempt waits for the rate limiter
ClientBeforeAttempt_NoLimiterOnRetry ==
    /\ cpc = "wait"
    /\ \E waitOK \in BOOLEAN :
          IF attempt = 0 /\ (ctxDone \/ ~waitOK)
          THEN /\ Return(Err("rate limit wait", 0, attempt))
               /\ UNCHANGED <<bodyAtStart, hist>>
          ELSE /\ hist' = [hist EXCEPT !.acquired = IF attempt = 0 THEN @ + 1 ELSE @]
               /\ bodyAtStart' = IF attempt = 0 \/ ~call.hasBody
                                 THEN bodyAtStart
                                 ELSE resetRequestBody(bodyAtStart)
               /\ cpc' = "send"
               /\ ret' = ret
    /\ UNCHANGED <<cfg, call, ctxDone, attempt, lastErr, sleepArg, sleepLeft>>

\* beforeAttempt: limiter.Wait(ctx), which fails once ctx is done or when the
\* wait would outlast the context's deadline; then the body reset of retries
ClientBeforeAttempt ==
    /\ cpc = "wait"
    /\ \E waitOK \in BOOLEAN :
          IF ctxDone \/ ~waitOK
          THEN /\ Return(Err("rate limit wait", 0, attempt))
               /\ UNCHANGED <<bodyAtStart, hist>>
          ELSE /\ hist' = [hist EXCEPT !.acquired = @ + 1]
               /\ bodyAtStart' = IF attempt = 0 \/ ~call.hasBody
                                 THEN bodyAtStart
                                 ELSE resetRequestBody(bodyAtStart)
               /\ cpc' = "send"
               /\ ret' = ret
    /\ UNCHANGED <<cfg, call, ctxDone, attempt, lastErr, sleepArg, sleepLeft>>

\* variant: the first error is kept instead of the latest
recordErr_KeepFirst(last, err) == IF last = NoErr THEN err ELSE last

\* executeWithRetries:121-123
recordErr(last, err) == IF err # NoErr THEN err ELSE last

\* c.http.Do, evaluateResponse, finalizeDecision, and either the return or
\* the call of backoff, whose c.sleep then blocks
ClientAttempt ==
    /\ cpc = "send"
    /\ \E o \in Outcomes, cancelled \in BOOLEAN, j \in Jitters :
          /\ ctxDone => (o = NetErr /\ cancelled)
          /\ cancelled => o = NetErr
          /\ ctxDone' = cancelled
          /\ LET ev == evaluateResponse(cancelled, o, call.hasOut, attempt)
                 decision == finalizeDecision(o, ev[1], ev[2], attempt)
                 d == backoffDelay(attempt, decision.retryAfter, j)
                 h == [hist EXCEPT
                         !.attempts = @ + 1, !.last = o,
                         !.retryable = IF RetryableOutcome(o, cancelled)
                                       THEN @ + 1 ELSE @,
                         !.sentAtStart = @ /\ (call.hasBody => bodyAtStart)]
             IN  /\ lastErr' = recordErr(lastErr, decision.err)
                 /\ IF ~decision.retry
                    THEN /\ Return(decision.err)
                         /\ UNCHANGED <<sleepArg, sleepLeft>>
                         /\ hist' = h
                    ELSE /\ sleepArg' = d
                         /\ sleepLeft' = IF d > 0 THEN 1 ELSE 0
                         /\ cpc' = "sleep"
                         /\ ret' = ret
                         /\ hist' = [h EXCEPT !.sleeps = @ + 1]
          /\ bodyAtStart' = IF call.hasBody THEN FALSE ELSE bodyAtStart
    /\ UNCHANGED <<cfg, call, attempt>>

\* time passes inside time.Sleep, which does not watch the context
ClientSleeping ==
    /\ cpc = "sleep"
    /\ sleepLeft > 0
    /\ sleepLeft' = sleepLeft - 1
    /\ hist' = [hist EXCEPT !.sleptCancelled = @ \/ ctxDone]
    /\ UNCHANGED <<cfg, call, ctxDone, cpc, attempt, lastErr, ret, bodyAtStart,
                   sleepArg>>

\* c.sleep returns: attempt++ and the loop test; after the loop the return
\* of lastErr
ClientNextAttempt ==
    /\ cpc = "sleep"
    /\ sleepLeft = 0
    /\ attempt' = attempt + 1
    /\ IF attempt + 1 <= cfg.MaxRetries
       THEN /\ cpc' = "wait"
            /\ ret' = ret
       ELSE Return(IF lastErr = NoErr
                   THEN Err("exhausted retries", 0, -1) ELSE lastErr)
    /\ UNCHANGED <<cfg, call, ctxDone, lastErr, bodyAtStart, sleepArg,
                   sleepLeft, hist>>

\* the caller cancels the context
ClientCancel ==
    /\ cpc # "done"
    /\ ~ctxDone
    /\ ctxDone' = TRUE
    /\ hist' = [hist EXCEPT !.cancelAt = IF cpc \in {"wait", "sleep"}
                                         THEN hist.attempts ELSE @]
    /\ UNCHANGED <<cfg, call, cpc, attempt, lastErr, ret, bodyAtStart,
                   sleepArg, sleepLeft>>

(***************************************************************************)
(* sync watch: values                                                      *)
(***************************************************************************)
\* time.Time.Format(time.RFC3339): the instant cut to whole seconds
FormatRFC3339(t) == t - (t % TicksPerSecond)

\* the clock reading at the start of a run; instant 0 is the zero time.Time
StartTime == MaxLookback + TicksPerSecond

\* what time.Now() can return after a reading of t
Readings(t) == t..clockEnd

NoWindow == [since |-> 0, until |-> 0, count |-> 0]
NoQuery == [lowerKey |-> "", since |-> 0, upperKey |-> "", until |-> 0,
            cursor |-> 0, poll |-> 0]
\* got: the results of the responses received so far, one entry a response
NoFetch == [since |-> 0, until |-> 0, callerUntil |-> 0, lowerExclusive |-> FALSE,
            cursor |-> 0, all |-> <<>>, pages |-> 0, boot |-> FALSE, got |-> <<>>]
\* what the latest call of fetchChanges returned, and the responses it had
\* received; NoReturn before the first call and while a call is running
\* (ctxDone: ctx was cancelled by the time it returned)
Returned(all, err, got, done) ==
    [all |-> all, err |-> err, got |-> got, ctxDone |-> done]
NoReturn == Returned(<<>>, "", <<>>, FALSE)

\* observations of one run: polls begun, the latest page request, the page
\* requests that failed, what the latest fetchChanges returned, poll events
\* written with the latest two windows,
\* polls whose output was suppressed, the webhook events written (delivery ids in
\* order), and for the push endpoint the requests that passed verification,
\* those rejected, the ids dropped, the drop diagnostics logged and the
\* status of the latest answer
NoWHist == [polls |-> 0, lastQuery |-> NoQuery, pageErrors |-> 0,
            returned |-> NoReturn,
            emits |-> 0, lastEmit |-> NoWindow, prevEmit |-> NoWindow,
            suppressed |-> 0, hookOut |-> <<>>,
            accepted |-> 0, rejected |-> 0, dropped |-> {}, logged |-> 0,
            lastStatus |-> 0]

\* hex.EncodeToString of the HMAC-SHA256 of timestamp || body under key:
\* different inputs give different text
HMAC(key, timestamp, body) == <<key, timestamp, body>>

Keys == {"k1", "k2"}
\* request bodies: "b" fits the ceiling, "B+" exceeds it and "B" is its
\* first webhookMaxBodyBytes bytes
Bodies == {"b", "B+"}
readWebhookBody(body) == IF body = "B+" THEN "B" ELSE body

\* Notion-Signature header: absent, or the hex text with or without the
\* "sha256=" prefix
Signature(present, prefixed, mac) ==
    [present |-> present, prefixed |-> prefixed, mac |-> mac]
Request(method, readOK, body, timestamp, signature) ==
    [method |-> method, readOK |-> readOK, body |-> body,
     timestamp |-> timestamp, signature |-> signature]
\* a POST signed by the holder of key k over the body it sends, and the
\* ways a request departs from it
Requests ==
    {Request("POST", TRUE, b, "t", Signature(TRUE, p, HMAC(k, "t", b))) :
        b \in Bodies, p \in BOOLEAN, k \in Keys}
    \cup {Request("POST", TRUE, "B+", "t", Signature(TRUE, TRUE, HMAC("k1", "t", "B"))),
          Request("POST", TRUE, "b", "t", Signature(FALSE, FALSE, HMAC("k1", "t", "b"))),
          Request("POST", TRUE, "b", "", Signature(TRUE, TRUE, HMAC("k1", "", "b"))),
          Request("POST", FALSE, "b", "t", Signature(TRUE, TRUE, HMAC("k1", "t", "b"))),
          Request("GET", TRUE, "b", "t", Signature(TRUE, TRUE, HMAC("k1", "t", "b")))}

\* the requests of a burst: the correctly signed POST of the small body, and
\* the same request with the signature altered, the signature header
\* missing, or the timestamp header missing
BurstRequests ==
    {Request("POST", TRUE, "b", "t", Signature(TRUE, TRUE, HMAC("k1", "t", "b"))),
     Request("POST", TRUE, "b", "t", Signature(TRUE, TRUE, HMAC("k2", "t", "b"))),
     Request("POST", TRUE, "b", "t", Signature(FALSE, FALSE, HMAC("k1", "t", "b"))),
     Request("POST", TRUE, "b", "", Signature(TRUE, TRUE, HMAC("k1", "", "b")))}

\* a verification that lets a request without signature header through
verifySignature_AcceptsUnsigned(r, body) ==
    IF opts.webhookSecret = "" THEN TRUE
    ELSE IF ~r.signature.present THEN TRUE
    ELSE IF r.timestamp = "" THEN FALSE
    ELSE HMAC(opts.webhookSecret, r.timestamp, body) = r.signature.mac

verifySignature(r, body) ==
    IF opts.webhookSecret = "" THEN TRUE
    ELSE IF ~r.signature.present \/ r.timestamp = "" THEN FALSE
    ELSE HMAC(opts.webhookSecret, r.timestamp, body) = r.signature.mac

\* the responses of a page request, given how many this query has issued:
\* an error, or results with has_more and next_cursor (0: empty)
PageResponses(n) ==
    [ok : {TRUE}, results : {<<>>, <<n + 1>>}, hasMore : BOOLEAN,
     nextCursor : {0, n + 1}]
    \cup {[ok |-> FALSE, results |-> <<>>, hasMore |-> FALSE, nextCursor |-> 0]}

(***************************************************************************)
(* sync watch: run, bootstrap, fetchChanges, loop                          *)
(***************************************************************************)
WatchInit ==
    /\ opts \in [initialSince : {0, 1, StartTime + 2},
                 lookback : 1..MaxLookback,
                 suppressEmpty : BOOLEAN, disableWebhook : BOOLEAN,
                 webhookSecret : {"", "k1"}]
    /\ now = StartTime
    /\ clockEnd \in StartTime..(StartTime + MaxElapsed)
    /\ wctxDone = FALSE
    /\ wpc = "start"
    /\ wret = NoErr
    /\ server = "off"
    /\ errCh = <<>>
    /\ deliveries = <<>>
    /\ tickReady = FALSE
    /\ lastPollEnd = 0
    /\ lowerExclusiveLB = FALSE
    /\ fetch = NoFetch
    /\ whist = NoWHist

\* run() returns err: the deferred ticker.Stop and stopServer run
WReturn(err) ==
    /\ wret' = err
    /\ wpc' = "returned"
    /\ server' = IF server = "listening" THEN "closed" ELSE server
    /\ tickReady' = FALSE

\* run: startServer, which announces the listener or fails
WatchRun ==
    /\ wpc = "start"
    /\ IF opts.disableWebhook
       THEN /\ wpc' = "bootstrap"
            /\ UNCHANGED <<server, wret, tickReady>>
       ELSE \E announced \in BOOLEAN :
               IF announced
               THEN /\ server' = "listening"
                    /\ wpc' = "bootstrap"
                    /\ UNCHANGED <<wret, tickReady>>
               ELSE /\ wret' = Err("announce webhook listener", 0, -1)
                    /\ wpc' = "returned"
                    /\ server' = "listening"
                    /\ UNCHANGED tickReady
    /\ UNCHANGED <<opts, now, clockEnd, wctxDone, errCh, deliveries, lastPollEnd,
                   lowerExclusiveLB, fetch, whist>>

\* emitPoll up to the first page request: the clamp of until
emitPollBegin(since, until, lowerExclusive, boot) ==
    [since |-> since,
     until |-> IF ~(until > since) THEN since ELSE until,
     callerUntil |-> until,
     lowerExclusive |-> lowerExclusive,
     cursor |-> 0, all |-> <<>>, pages |-> 0, boot |-> boot, got |-> <<>>]

\* bootstrap: the initial window, and emitPoll entered
WatchBootstrap ==
    /\ wpc = "bootstrap"
    /\ \E t1 \in Readings(now) : \E t2 \in Readings(t1) :
          LET since == IF opts.initialSince = 0 THEN t1 - opts.lookback
                       ELSE opts.initialSince
          IN  /\ opts.initialSince # 0 => t1 = now
              /\ lastPollEnd' = since
              /\ fetch' = emitPollBegin(since, t2, FALSE, TRUE)
              /\ now' = t2
    /\ wpc' = "fetch"
    /\ whist' = [whist EXCEPT !.polls = @ + 1]
    /\ UNCHANGED <<opts, clockEnd, wctxDone, wret, server, errCh, deliveries,
                   tickReady, lowerExclusiveLB>>

\* a filter whose lower bound is inclusive whatever the mode
changeFilter_Inclusive(f, poll) ==
    [lowerKey |-> "on_or_after",
     since |-> FormatRFC3339(f.since),
     upperKey |-> "on_or_before",
     until |-> FormatRFC3339(f.until),
     cursor |-> f.cursor, poll |-> poll]

\* the filter fetchChanges builds
changeFilter(f, poll) ==
    [lowerKey |-> IF f.lowerExclusive THEN "after" ELSE "on_or_after",
     since |-> FormatRFC3339(f.since),
     upperKey |-> "on_or_before",
     until |-> FormatRFC3339(f.until),
     cursor |-> f.cursor, poll |-> poll]

\* the cursor update of bootstrap / pollNext after emitPoll returned nil
advanceCursor(f) == f.callerUntil

\* all = append(all, resp.Results...) with the results in front
appendPage_InFront(all, results) == results \o all

\* all = append(all, resp.Results...)
appendPage(all, results) == all \o results

\* one iteration of the loop of fetchChanges that gets response r to its page
\* request (ctx as it is by then); after the last page the rest of emitPoll
\* (whose write succeeds or not) and of bootstrap / pollNext
fetchPage(r, written) ==
    LET h == [whist EXCEPT !.lastQuery = changeFilter(fetch, whist.polls)]
        all == appendPage(fetch.all, r.results)
        got == Append(fetch.got, r.results)
        ok == Returned(all, "nil", got, wctxDone')
    IN  /\ (r.hasMore /\ r.nextCursor # 0) => fetch.pages + 1 < MaxPages
        /\ IF ~r.ok
           THEN /\ WReturn(Err("query data source", 0, -1))
                /\ whist' = [h EXCEPT !.pageErrors = @ + 1,
                                      !.returned = Returned(<<>>, "query data source",
                                                            fetch.got, wctxDone')]
                /\ UNCHANGED <<fetch, lastPollEnd, lowerExclusiveLB>>
           ELSE IF r.hasMore /\ r.nextCursor # 0
           THEN /\ fetch' = [fetch EXCEPT !.all = all, !.pages = @ + 1,
                                          !.cursor = r.nextCursor, !.got = got]
                /\ whist' = h
                /\ UNCHANGED <<wpc, wret, server, tickReady,
                               lastPollEnd, lowerExclusiveLB>>
           ELSE IF opts.suppressEmpty /\ Len(all) = 0
           THEN /\ whist' = [h EXCEPT !.suppressed = @ + 1, !.returned = ok]
                /\ lastPollEnd' = advanceCursor(fetch)
                /\ lowerExclusiveLB' = TRUE
                /\ fetch' = NoFetch
                /\ wpc' = "loop"
                /\ UNCHANGED <<wret, server, tickReady>>
           ELSE IF ~written
           THEN /\ WReturn(Err("write poll output", 0, -1))
                /\ whist' = [h EXCEPT !.returned = ok]
                /\ UNCHANGED <<fetch, lastPollEnd, lowerExclusiveLB>>
           ELSE /\ whist' = [h EXCEPT
                      !.returned = ok,
                      !.emits = @ + 1,
                      !.prevEmit = whist.lastEmit,
                      !.lastEmit = [since |-> fetch.since,
                                    until |-> fetch.until,
                                    count |-> Len(all)]]
                /\ lastPollEnd' = advanceCursor(fetch)
                /\ lowerExclusiveLB' = TRUE
                /\ fetch' = NoFetch
                /\ wpc' = "loop"
                /\ UNCHANGED <<wret, server, tickReady>>

\* fetchChanges returning on ctx.Done() without the items it holds
cancelReturn_NoItems(f) == Returned(<<>>, "watch canceled", f.got, TRUE)

\* fetchChanges returning on ctx.Done(): return all, "watch canceled"
cancelReturn(f) == Returned(f.all, "watch canceled", f.got, TRUE)

\* fetchChanges at the head of its loop: the check of ctx, then a page
\* request, during which ctx is cancelled or not
FetchPage ==
    /\ wpc = "fetch"
    /\ IF wctxDone
       THEN /\ WReturn(Err("watch canceled", 0, -1))
            /\ whist' = [whist EXCEPT !.returned = cancelReturn(fetch)]
            /\ UNCHANGED <<fetch, lastPollEnd, lowerExclusiveLB, wctxDone>>
       ELSE \E r \in PageResponses(fetch.pages), written \in BOOLEAN :
               /\ wctxDone' \in BOOLEAN
               /\ fetchPage(r, written)
    /\ UNCHANGED <<opts, now, clockEnd, errCh, deliveries>>

\* loop, case <-ctx.Done()
LoopCancelled ==
    /\ wpc = "loop"
    /\ wctxDone
    /\ WReturn(NoErr)
    /\ UNCHANGED <<opts, now, clockEnd, wctxDone, errCh, deliveries, lastPollEnd,
                   lowerExclusiveLB, fetch, whist>>

\* a loop that takes the server's error and goes on
LoopServerError_GoesOn ==
    /\ wpc = "loop"
    /\ errCh # <<>>
    /\ errCh' = Tail(errCh)
    /\ UNCHANGED <<opts, now, clockEnd, wctxDone, wpc, wret, server, deliveries,
                   tickReady, lastPollEnd, lowerExclusiveLB, fetch, whist>>

\* loop, case err := <-rt.errCh
LoopServerError ==
    /\ wpc = "loop"
    /\ errCh # <<>>
    /\ WReturn(Head(errCh))
    /\ errCh' = Tail(errCh)
    /\ UNCHANGED <<opts, now, clockEnd, wctxDone, deliveries, lastPollEnd,
                   lowerExclusiveLB, fetch, whist>>

\* a loop whose delivery case makes the next poll's lower bound inclusive
LoopDelivery_MovesCursor ==
    /\ wpc = "loop"
    /\ deliveries # <<>>
    /\ deliveries' = Tail(deliveries)
    /\ lowerExclusiveLB' = FALSE
    /\ \E written \in BOOLEAN :
          IF written
          THEN /\ whist' = [whist EXCEPT !.hookOut = Append(@, Head(deliveries).id)]
               /\ UNCHANGED <<wpc, wret, server, tickReady>>
          ELSE /\ WReturn(Err("write webhook event", 0, -1))
               /\ whist' = whist
    /\ UNCHANGED <<opts, now, clockEnd, wctxDone, errCh, lastPollEnd, fetch>>

\* loop, case delivery := <-rt.deliveries: emitWebhook
LoopDelivery ==
    /\ wpc = "loop"
    /\ deliveries # <<>>
    /\ deliveries' = Tail(deliveries)
    /\ \E written \in BOOLEAN :
          IF written
          THEN /\ whist' = [whist EXCEPT !.hookOut = Append(@, Head(deliveries).id)]
               /\ UNCHANGED <<wpc, wret, server, tickReady>>
          ELSE /\ WReturn(Err("write webhook event", 0, -1))
               /\ whist' = whist
    /\ UNCHANGED <<opts, now, clockEnd, wctxDone, errCh, lastPollEnd, lowerExclusiveLB,
                   fetch>>

\* loop, case <-rt.ticker.C: pollNext up to the first page request
LoopTick ==
    /\ wpc = "loop"
    /\ tickReady
    /\ tickReady' = FALSE
    /\ \E t \in Readings(now) :
          /\ fetch' = emitPollBegin(lastPollEnd, t, lowerExclusiveLB, FALSE)
          /\ now' = t
    /\ wpc' = "fetch"
    /\ whist' = [whist EXCEPT !.polls = @ + 1, !.returned = NoReturn]
    /\ UNCHANGED <<opts, clockEnd, wctxDone, wret, server, errCh, deliveries,
                   lastPollEnd, lowerExclusiveLB>>

\* the ticker made by run after the bootstrap drops a tick into its
\* channel; at most maxPolls ticks are taken up in a run
TickerFires(maxPolls) ==
    /\ wpc \in {"loop", "fetch"}
    /\ lowerExclusiveLB
    /\ ~tickReady
    /\ whist.polls <= maxPolls
    /\ tickReady' = TRUE
    /\ UNCHANGED <<opts, now, clockEnd, wctxDone, wpc, wret, server, errCh, deliveries,
                   lastPollEnd, lowerExclusiveLB, fetch, whist>>

\* the command's context is cancelled
WatchCancel ==
    /\ wpc # "returned"
    /\ ~wctxDone
    /\ wctxDone' = TRUE
    /\ UNCHANGED <<opts, now, clockEnd, wpc, wret, server, errCh, deliveries, tickReady,
                   lastPollEnd, lowerExclusiveLB, fetch, whist>>

\* startWebhookServer's goroutines: ListenAndServe fails, or the shutdown
\* after ctx.Done() ends (with an error when it times out); errCh holds one
ServerStops ==
    /\ server = "listening"
    /\ wpc # "returned"
    /\ \E failed \in BOOLEAN :
          /\ ~failed => wctxDone
          /\ failed => errCh = <<>>
          /\ server' = IF wctxDone THEN "closed" ELSE "failed"
          /\ errCh' = IF failed
                      THEN <<Err(IF wctxDone THEN "shutdown webhook server"
                                 ELSE "webhook server", 0, -1)>>
                      ELSE errCh
    /\ UNCHANGED <<opts, now, clockEnd, wctxDone, wpc, wret, deliveries, tickReady,
                   lastPollEnd, lowerExclusiveLB, fetch, whist>>

\* a queue that makes room for the newest delivery by dropping the oldest
offerDelivery_DropOldest(queue, delivery) ==
    IF Len(queue) < webhookQueueSize
    THEN [queue |-> Append(queue, delivery), dropped |-> FALSE]
    ELSE [queue |-> Append(Tail(queue), delivery), dropped |-> TRUE]

\* offerDelivery: the non-blocking send, or the drop and its diagnostic
offerDelivery(queue, delivery) ==
    IF Len(queue) < webhookQueueSize
    THEN [queue |-> Append(queue, delivery), dropped |-> FALSE]
    ELSE [queue |-> queue, dropped |-> TRUE]

\* an answer that tells the caller of a dropped delivery
respondWebhookOK_BusyOnDrop(offer) == IF offer.dropped THEN 503 ELSE StatusOK

\* respondWebhookOK: the answer after offerDelivery, whatever became of the
\* delivery
respondWebhookOK(offer) == StatusOK

\* a handler that writes the webhook event itself besides queueing it
webhookHandler_WritesEvent(r) ==
    LET body == readWebhookBody(r.body)
        status == IF r.method # "POST" THEN StatusMethodNotAllowed
                  ELSE IF ~r.readOK THEN StatusBadRequest
                  ELSE IF ~verifySignature(r, body) THEN StatusUnauthorized
                  ELSE StatusOK
        id == whist.accepted + 1
        offer == offerDelivery(deliveries, [id |-> id, payload |-> body])
    IN  IF status # StatusOK
        THEN /\ whist' = [whist EXCEPT !.rejected = @ + 1,
                                       !.lastStatus = status]
             /\ UNCHANGED deliveries
        ELSE /\ deliveries' = offer.queue
             /\ whist' = [whist EXCEPT
                   !.accepted = id,
                   !.lastStatus = respondWebhookOK(offer),
                   !.hookOut = Append(@, id),
                   !.dropped = IF offer.dropped THEN @ \cup {id} ELSE @,
                   !.logged = IF offer.dropped THEN @ + 1 ELSE @]

\* webhookHandler on request r: the answer, and the delivery offered
webhookHandler(r) ==
    LET body == readWebhookBody(r.body)
        status == IF r.method # "POST" THEN StatusMethodNotAllowed
                  ELSE IF ~r.readOK THEN StatusBadRequest
                  ELSE IF ~verifySignature(r, body) THEN StatusUnauthorized
                  ELSE StatusOK
        id == whist.accepted + 1
        offer == offerDelivery(deliveries, [id |-> id, payload |-> body])
    IN  IF status # StatusOK
        THEN /\ whist' = [whist EXCEPT !.rejected = @ + 1,
                                       !.lastStatus = status]
             /\ UNCHANGED deliveries
        ELSE /\ deliveries' = offer.queue
             /\ whist' = [whist EXCEPT
                   !.accepted = id,
                   !.lastStatus = respondWebhookOK(offer),
                   !.dropped = IF offer.dropped THEN @ \cup {id} ELSE @,
                   !.logged = IF offer.dropped THEN @ + 1 ELSE @]

\* the server's goroutine of one request of the set reqs; at most maxReq
\* requests arrive in a run
WebhookRequest(maxReq, reqs) ==
    /\ server = "listening"
    /\ wpc # "returned"
    /\ whist.accepted + whist.rejected < maxReq
    /\ \E r \in reqs : webhookHandler(r)
    /\ UNCHANGED <<opts, now, clockEnd, wctxDone, wpc, wret, server, errCh, tickReady,
                   lastPollEnd, lowerExclusiveLB, fetch>>

(***************************************************************************)
(* changes: parseWindow, prepareQuery, executeDataSourceQuery              *)
(***************************************************************************)
\* a flag value: absent (""), not RFC3339, or an instant
NoArg == 0
BadArg == -1
WindowArgs == {BadArg, NoArg} \cup (1..(StartTime + MaxElapsed))

NoChanges ==
    [pc |-> "done", sinceArg |-> NoArg, untilArg |-> NoArg,
     since |-> 0, until |-> 0, err |-> NoErr,
     filter |-> NoQuery, cursor |-> 0, requests |-> 0, all |-> <<>>]

ChangesIdle == changes = NoChanges

ChangesInit ==
    \E s \in WindowArgs, u \in WindowArgs :
        changes = [NoChanges EXCEPT !.pc = "start", !.sinceArg = s, !.untilArg = u]

\* parseWindow: the window or the error, given the clock reading t
parseWindow(sinceArg, untilArg, t) ==
    IF sinceArg = NoArg THEN [err |-> Err("--since is required", 0, -1), since |-> 0, until |-> 0]
    ELSE IF sinceArg = BadArg THEN [err |-> Err("parse --since", 0, -1), since |-> 0, until |-> 0]
    ELSE IF untilArg = BadArg THEN [err |-> Err("parse --until", 0, -1), since |-> sinceArg, until |-> 0]
    ELSE LET until == IF untilArg # NoArg THEN untilArg ELSE t
         IN  IF until < sinceArg
             THEN [err |-> Err("--until must be after --since", 0, -1),
                   since |-> sinceArg, until |-> until]
             ELSE [err |-> NoErr, since |-> sinceArg, until |-> until]

\* buildChangesFilter
buildChangesFilter(since, until) ==
    [lowerKey |-> "on_or_after", since |-> FormatRFC3339(since),
     upperKey |-> "on_or_before", until |-> FormatRFC3339(until),
     cursor |-> 0, poll |-> 0]

\* run up to the first page request: parseWindow, prepareQuery, and
\* resolveIndex, which fails or not
ChangesParse ==
    /\ changes.pc = "start"
    /\ \E t \in 1..(StartTime + MaxElapsed), resolved \in BOOLEAN :
          LET w == parseWindow(changes.sinceArg, changes.untilArg, t)
          IN  IF w.err # NoErr
              THEN changes' = [changes EXCEPT !.pc = "done", !.err = w.err,
                                              !.since = w.since, !.until = w.until]
              ELSE IF ~resolved
              THEN changes' = [changes EXCEPT !.pc = "done",
                                              !.err = Err("get data source", 0, -1),
                                              !.since = w.since, !.until = w.until]
              ELSE changes' = [changes EXCEPT !.pc = "query",
                                              !.since = w.since, !.until = w.until,
                                              !.filter = buildChangesFilter(w.since, w.until)]

\* one iteration of the loop of executeDataSourceQuery (fetchAll); after the
\* last page expandResults and renderResults, which fail or not
ChangesPage ==
    /\ changes.pc = "query"
    /\ \E r \in PageResponses(changes.requests), rendered \in BOOLEAN :
          LET sent == [changes EXCEPT !.requests = @ + 1,
                                      !.filter.cursor = changes.cursor]
          IN  /\ (r.hasMore /\ r.nextCursor # 0) => changes.requests + 1 < MaxPages
              /\ IF ~r.ok
                 THEN changes' = [sent EXCEPT !.pc = "done",
                                              !.err = Err("query data source", 0, -1)]
                 ELSE IF r.hasMore /\ r.nextCursor # 0
                 THEN changes' = [sent EXCEPT !.all = @ \o r.results,
                                              !.cursor = r.nextCursor]
                 ELSE changes' = [sent EXCEPT !.all = @ \o r.results,
                                              !.pc = "done",
                                              !.err = IF rendered THEN NoErr
                                                      ELSE Err("render", 0, -1)]

(***************************************************************************)
(* fetchChanges alone: the drain against a remote that may never stop      *)
(***************************************************************************)
\* cursors the remote hands out (0: the empty string); lengths and request
\* counts are counted up to DrainCap, where the count stays
MaxCursor == 2
DrainCap == 3

Saturate(n) == IF n > DrainCap THEN DrainCap ELSE n

\* no response yet
NoPage == [ok |-> FALSE, results |-> -1, hasMore |-> FALSE, nextCursor |-> 0]

\* a response to a page request: an error, or a number of results with
\* has_more and next_cursor; the remote is free to repeat a cursor
DrainResponses ==
    [ok : BOOLEAN, results : 0..1, hasMore : BOOLEAN, nextCursor : 0..MaxCursor]

\* pc: "head" (the select on ctx), "request" (QueryDataSource in flight),
\* "returned"; all: len(all); last: the latest response; repeated: a
\* response named the cursor its request had sent
NoDrain ==
    [pc |-> "returned", ctxDone |-> FALSE, cursor |-> 0, requests |-> 0,
     all |-> 0, last |-> NoPage, repeated |-> FALSE,
     ret |-> [all |-> 0, err |-> ""]]

DrainInit == drain = [NoDrain EXCEPT !.pc = "head"]

\* a drain that gives up when the remote names the cursor it was just sent
drainContinues_StopsOnRepeat(r, cursor) ==
    r.hasMore /\ r.nextCursor # 0 /\ r.nextCursor # cursor

\* the negation of the loop's break test: !resp.HasMore || resp.NextCursor == ""
drainContinues(r, cursor) == r.hasMore /\ r.nextCursor # 0

\* the select at the head of the loop
DrainCheck ==
    /\ drain.pc = "head"
    /\ drain' = IF drain.ctxDone
                THEN [drain EXCEPT !.pc = "returned",
                                   !.ret = [all |-> drain.all, err |-> "watch canceled"]]
                ELSE [drain EXCEPT !.pc = "request",
                                   !.requests = Saturate(@ + 1)]

\* the response to the page request: the error return, the append, the break
\* or the next cursor
DrainResponse ==
    /\ drain.pc = "request"
    /\ \E r \in DrainResponses :
          LET all == Saturate(drain.all + r.results)
              d == [drain EXCEPT !.last = r]
          IN  drain' =
                IF ~r.ok
                THEN [d EXCEPT !.pc = "returned",
                               !.ret = [all |-> 0, err |-> "query data source"]]
                ELSE IF drainContinues(r, drain.cursor)
                THEN [d EXCEPT !.pc = "head", !.all = all,
                               !.cursor = r.nextCursor,
                               !.repeated = @ \/ r.nextCursor = drain.cursor]
                ELSE [d EXCEPT !.pc = "returned", !.all = all,
                               !.ret = [all |-> all, err |-> "nil"]]

\* the caller cancels ctx
DrainCancel ==
    /\ drain.pc # "returned"
    /\ ~drain.ctxDone
    /\ drain' = [drain EXCEPT !.ctxDone = TRUE]

(***************************************************************************)
(* expand.FirstLevel: prepareRelationRefs, fetchRelatedPages,              *)
(* applyExpandedRelations                                                  *)
(***************************************************************************)
\* related page ids that the pages of a call reference
MaxRelIds == 4
\* expand: defaultConcurrency, relationType
defaultConcurrency == 3
relationType == "relation"

RelIds == 1..MaxRelIds
PropNames == {"A", "B"}

\* a property value of a page: a relation, a value of another type, or no
\* such property
Rel(ids) == [type |-> relationType, relation |-> ids]
Other == [type |-> "rich_text", relation |-> <<>>]
Absent == [type |-> "", relation |-> <<>>]
\* a page's Properties, by property name
Page(a, b) == [A |-> a, B |-> b]
\* notion.PropertyReference
PropRef(id, name, type) == [id |-> id, name |-> name, type |-> type]
RefA == PropRef("prop-a", "A", relationType)
RefB == PropRef("prop-b", "B", relationType)
RefBText == PropRef("prop-b", "B", "rich_text")

AllRelIds == [i \in RelIds |-> i]

\* the arguments of a call: pages that share a related page, a relation
\* that names a page twice and two properties that name the same page, more
\* related pages than defaultConcurrency, and calls with nothing to expand
ExpandInputs ==
    {[pages |-> <<Page(Rel(<<1>>), Absent), Page(Rel(<<1>>), Absent)>>,
      properties |-> <<RefA>>],
     [pages |-> <<Page(Rel(<<1, 1>>), Rel(<<1, 2>>))>>,
      properties |-> <<RefA, RefB>>],
     [pages |-> <<Page(Rel(AllRelIds), Absent),
                  Page(Rel(<<MaxRelIds, 1>>), Rel(<<2>>))>>,
      properties |-> <<RefA, RefB>>],
     [pages |-> <<Page(Other, Rel(<<1>>))>>,
      properties |-> <<RefA, RefBText>>],
     [pages |-> <<Page(Rel(<<>>), Absent)>>, properties |-> <<RefA>>],
     [pages |-> <<>>, properties |-> <<RefA>>],
     [pages |-> <<Page(Rel(<<1>>), Absent)>>, properties |-> <<>>]}

RECURSIVE appendAll(_)
appendAll(seqs) ==
    IF seqs = <<>> THEN <<>> ELSE Head(seqs) \o appendAll(Tail(seqs))

\* collectPageRelations: the references of one page, property by property
collectPageRelations(pageIdx, page, properties) ==
    appendAll([k \in 1..Len(properties) |->
        LET ref == properties[k]
            value == page[ref.name]
        IN  IF ref.type # relationType \/ value.type # relationType
            THEN <<>>
            ELSE [j \in 1..Len(value.relation) |->
                     [relationID |-> value.relation[j],
                      propertyID |-> ref.id,
                      pageIdx |-> pageIdx]]])

\* the refs of prepareRelationRefs
relationRefs(pages, properties) ==
    appendAll([i \in 1..Len(pages) |->
                  collectPageRelations(i, pages[i], properties)])

RECURSIVE SetToSeq(_)
SetToSeq(S) ==
    IF S = {} THEN <<>>
    ELSE LET m == CHOOSE x \in S : \A y \in S : x <= y
         IN  <<m>> \o SetToSeq(S \ {m})

\* a list of ids with one entry for every reference
uniqueIDs_PerReference(refs) == [i \in 1..Len(refs) |-> refs[i].relationID]

\* the ids of prepareRelationRefs: the keys of uniqueIDs
uniqueIDs(refs) == SetToSeq({refs[i].relationID : i \in 1..Len(refs)})

\* propByID of prepareRelationRefs: the property ids of relation type and
\* the name each stands for
propByID(properties) ==
    {<<properties[k].id, properties[k].name>> :
        k \in {j \in 1..Len(properties) : properties[j].type = relationType}}

Contains(seq, x) == \E i \in 1..Len(seq) : seq[i] = x

\* applyExpandedRelations: ExpandedRelations of every page (by property
\* name, the ids of the related pages) after the references refs
RECURSIVE applyExpandedRelations(_, _, _, _)
applyExpandedRelations(expanded, refs, props, related) ==
    IF refs = <<>> THEN expanded
    ELSE LET ref == Head(refs)
             names == {pn[2] : pn \in {x \in props : x[1] = ref.propertyID}}
         IN  IF names = {} \/ ref.relationID \notin DOMAIN related
             THEN applyExpandedRelations(expanded, Tail(refs), props, related)
             ELSE LET name == CHOOSE n \in names : TRUE
                      bucket == expanded[ref.pageIdx][name]
                      pageID == related[ref.relationID]
                  IN  applyExpandedRelations(
                          IF Contains(bucket, pageID) THEN expanded
                          ELSE [expanded EXCEPT ![ref.pageIdx][name] =
                                                   Append(bucket, pageID)],
                          Tail(refs), props, related)

\* pc: "idle", "start", "fetching" (fetchRelatedPages in g.Wait), "done";
\* ids: the ids handed to fetchRelatedPages, one goroutine each; g: each
\* goroutine at "wait" (the select on sem), "fetch" (holding sem, in
\* RetrievePage), "done", "failed" or "skipped"; groupCtxDone: groupCtx is
\* cancelled; firstErr: the error g.Wait will return; requests: calls of
\* RetrievePage by id; related: the result map; expanded: ExpandedRelations
\* by page
NoExpand ==
    [pc |-> "idle", input |-> [pages |-> <<>>, properties |-> <<>>],
     refs |-> <<>>, ids |-> <<>>, g |-> <<>>, groupCtxDone |-> FALSE,
     firstErr |-> "", requests |-> [i \in RelIds |-> 0],
     related |-> <<>>, expanded |-> <<>>, err |-> ""]

NoneExpanded(pages) == [i \in 1..Len(pages) |-> [n \in PropNames |-> <<>>]]

ExpandInit ==
    \E in \in ExpandInputs :
        expand = [NoExpand EXCEPT !.pc = "start", !.input = in,
                                  !.expanded = NoneExpanded(in.pages)]

\* FirstLevel up to g.Wait: the early returns, prepareRelationRefs, and
\* the goroutines started
ExpandStart ==
    /\ expand.pc = "start"
    /\ LET in == expand.input
           refs == relationRefs(in.pages, in.properties)
           ids == uniqueIDs(refs)
       IN  expand' =
             IF Len(in.pages) = 0 \/ Len(in.properties) = 0 \/ Len(refs) = 0
             THEN [expand EXCEPT !.pc = "done", !.err = "nil"]
             ELSE [expand EXCEPT !.pc = "fetching", !.refs = refs, !.ids = ids,
                                 !.g = [k \in 1..Len(ids) |-> "wait"]]

Holding == Cardinality({k \in 1..Len(expand.g) : expand.g[k] = "fetch"})

\* a goroutine's select takes the semaphore
ExpandAcquire ==
    /\ expand.pc = "fetching"
    /\ Holding < defaultConcurrency
    /\ \E k \in 1..Len(expand.g) :
          /\ expand.g[k] = "wait"
          /\ expand' = [expand EXCEPT !.g[k] = "fetch"]

\* a goroutine's select takes groupCtx.Done() and returns groupCtx.Err()
ExpandSkip ==
    /\ expand.pc = "fetching"
    /\ expand.groupCtxDone
    /\ \E k \in 1..Len(expand.g) :
          /\ expand.g[k] = "wait"
          /\ expand' = [expand EXCEPT
                !.g[k] = "skipped",
                !.firstErr = IF @ = "" THEN "context canceled" ELSE @]

\* a goroutine's RetrievePage and what follows: the page stored under the
\* mutex, or the error, with which the group cancels groupCtx; the
\* semaphore is released
ExpandRetrieve ==
    /\ expand.pc = "fetching"
    /\ \E k \in 1..Len(expand.g), ok \in BOOLEAN :
          /\ expand.g[k] = "fetch"
          /\ LET id == expand.ids[k]
                 e == [expand EXCEPT !.requests[id] = @ + 1]
             IN  expand' =
                   IF ok
                   THEN [e EXCEPT !.g[k] = "done",
                                  !.related = [x \in DOMAIN @ \cup {id} |-> x]]
                   ELSE [e EXCEPT !.g[k] = "failed",
                                  !.groupCtxDone = TRUE,
                                  !.firstErr = IF @ = "" THEN "retrieve related page"
                                               ELSE @]

\* the caller's ctx is cancelled, and groupCtx with it
ExpandCancel ==
    /\ expand.pc = "fetching"
    /\ ~expand.groupCtxDone
    /\ expand' = [expand EXCEPT !.groupCtxDone = TRUE]

\* g.Wait returns: the error, or applyExpandedRelations
ExpandWait ==
    /\ expand.pc = "fetching"
    /\ \A k \in 1..Len(expand.g) : expand.g[k] \in {"done", "failed", "skipped"}
    /\ expand' =
          IF expand.firstErr # ""
          THEN [expand EXCEPT !.pc = "done", !.err = "expand relations"]
          ELSE [expand EXCEPT
                  !.pc = "done", !.err = "nil",
                  !.expanded = applyExpandedRelations(
                                  @, expand.refs,
                                  propByID(expand.input.properties),
                                  expand.related)]

HelpersIdle == drain = NoDrain /\ expand = NoExpand

(***************************************************************************)
(* Specifications                                                          *)
(***************************************************************************)
\* the other subsystem at rest
WatchIdle ==
    /\ opts = [initialSince |-> 0, lookback |-> 1, suppressEmpty |-> FALSE,
               disableWebhook |-> TRUE, webhookSecret |-> ""]
    /\ now = StartTime
    /\ clockEnd = StartTime
    /\ wctxDone = FALSE
    /\ wpc = "returned"
    /\ wret = NoErr
    /\ server = "off"
    /\ errCh = <<>>
    /\ deliveries = <<>>
    /\ tickReady = FALSE
    /\ lastPollEnd = 0
    /\ lowerExclusiveLB = FALSE
    /\ fetch = NoFetch
    /\ whist = NoWHist

ClientIdle ==
    /\ cfg = NewClient([MaxRetries |-> 0, BackoffBase |-> 0])
    /\ call = [hasBody |-> FALSE, hasOut |-> FALSE]
    /\ ctxDone = FALSE
    /\ cpc = "done"
    /\ attempt = 0
    /\ lastErr = NoErr
    /\ ret = NoErr
    /\ bodyAtStart = TRUE
    /\ sleepArg = 0
    /\ sleepLeft = 0
    /\ hist = NoHist

\* one call of Client.Do
InitClient == ClientInit /\ WatchIdle /\ ChangesIdle /\ HelpersIdle

NextClient ==
    \/ ClientDo /\ UNCHANGED <<wvars, gvars, hvars>>
    \/ ClientBeforeAttempt /\ UNCHANGED <<wvars, gvars, hvars>>
    \/ ClientAttempt /\ UNCHANGED <<wvars, gvars, hvars>>
    \/ ClientSleeping /\ UNCHANGED <<wvars, gvars, hvars>>
    \/ ClientNextAttempt /\ UNCHANGED <<wvars, gvars, hvars>>
    \/ ClientCancel /\ UNCHANGED <<wvars, gvars, hvars>>

SpecClient == InitClient /\ [][NextClient]_vars

\* one run of sync watch --no-webhook
InitWatch ==
    /\ WatchInit /\ ClientIdle /\ ChangesIdle /\ HelpersIdle
    /\ opts.disableWebhook /\ opts.webhookSecret = ""
    /\ clockEnd = StartTime + MaxElapsed

NextWatch ==
    \/ WatchRun /\ UNCHANGED <<cvars, gvars, hvars>>
    \/ WatchBootstrap /\ UNCHANGED <<cvars, gvars, hvars>>
    \/ FetchPage /\ UNCHANGED <<cvars, gvars, hvars>>
    \/ LoopCancelled /\ UNCHANGED <<cvars, gvars, hvars>>
    \/ LoopTick /\ UNCHANGED <<cvars, gvars, hvars>>
    \/ TickerFires(MaxPolls) /\ UNCHANGED <<cvars, gvars, hvars>>
    \/ WatchCancel /\ UNCHANGED <<cvars, gvars, hvars>>

SpecWatch == InitWatch /\ [][NextWatch]_vars

\* one run of sync watch --no-webhook started without --since, in which every
\* reading of the clock gives the same instant
InitDrain ==
    /\ WatchInit /\ ClientIdle /\ ChangesIdle /\ HelpersIdle
    /\ opts.disableWebhook /\ opts.webhookSecret = ""
    /\ opts.initialSince = 0 /\ opts.lookback = MaxLookback
    /\ clockEnd = StartTime

SpecDrain == InitDrain /\ [][NextWatch]_vars

\* one run of sync watch with the webhook listener, started without --since
\* and --suppress-empty, in which the clock advances by at most one tick
InitHook ==
    /\ WatchInit /\ ClientIdle /\ ChangesIdle /\ HelpersIdle
    /\ ~opts.disableWebhook /\ opts.initialSince = 0 /\ ~opts.suppressEmpty
    /\ opts.lookback = MaxLookback
    /\ clockEnd = StartTime + 1

NextHook ==
    \/ WatchRun /\ UNCHANGED <<cvars, gvars, hvars>>
    \/ WatchBootstrap /\ UNCHANGED <<cvars, gvars, hvars>>
    \/ FetchPage /\ UNCHANGED <<cvars, gvars, hvars>>
    \/ LoopCancelled /\ UNCHANGED <<cvars, gvars, hvars>>
    \/ LoopServerError /\ UNCHANGED <<cvars, gvars, hvars>>
    \/ LoopDelivery /\ UNCHANGED <<cvars, gvars, hvars>>
    \/ LoopTick /\ UNCHANGED <<cvars, gvars, hvars>>
    \/ TickerFires(MaxHookPolls) /\ UNCHANGED <<cvars, gvars, hvars>>
    \/ WatchCancel /\ UNCHANGED <<cvars, gvars, hvars>>
    \/ ServerStops /\ UNCHANGED <<cvars, gvars, hvars>>
    \/ WebhookRequest(MaxRequests, Requests) /\ UNCHANGED <<cvars, gvars, hvars>>

SpecHook == InitHook /\ [][NextHook]_vars

\* a run of sync watch that receives a burst of deliveries of one shape,
\* within which the timer does not fire
InitPush ==
    /\ WatchInit /\ ClientIdle /\ ChangesIdle /\ HelpersIdle
    /\ ~opts.disableWebhook /\ opts.initialSince = 0 /\ ~opts.suppressEmpty
    /\ opts.lookback = MaxLookback
    /\ opts.webhookSecret = "k1"
    /\ clockEnd = StartTime

NextPush ==
    \/ WatchRun /\ UNCHANGED <<cvars, gvars, hvars>>
    \/ WatchBootstrap /\ UNCHANGED <<cvars, gvars, hvars>>
    \/ FetchPage /\ UNCHANGED <<cvars, gvars, hvars>>
    \/ LoopCancelled /\ UNCHANGED <<cvars, gvars, hvars>>
    \/ LoopDelivery /\ UNCHANGED <<cvars, gvars, hvars>>
    \/ WatchCancel /\ UNCHANGED <<cvars, gvars, hvars>>
    \/ WebhookRequest(MaxDeliveries, BurstRequests) /\ UNCHANGED <<cvars, gvars, hvars>>

SpecPush == InitPush /\ [][NextPush]_vars

\* the steps of the goroutine that runs run, bootstrap and loop
RunSteps ==
    (WatchRun \/ WatchBootstrap \/ FetchPage \/ LoopCancelled \/ LoopDelivery)
    /\ UNCHANGED <<cvars, gvars, hvars>>

\* SpecPush in which that goroutine is scheduled whenever it can take a step
FairPush == SpecPush /\ WF_vars(RunSteps)

\* one run of the changes command
InitChanges == ChangesInit /\ ClientIdle /\ WatchIdle /\ HelpersIdle

NextChanges ==
    \/ ChangesParse /\ UNCHANGED <<cvars, wvars, hvars>>
    \/ ChangesPage /\ UNCHANGED <<cvars, wvars, hvars>>

SpecChanges == InitChanges /\ [][NextChanges]_vars

\* one call of fetchChanges
InitFollow ==
    /\ DrainInit /\ expand = NoExpand
    /\ ClientIdle /\ WatchIdle /\ ChangesIdle

NextFollow ==
    \/ DrainCheck /\ UNCHANGED <<cvars, wvars, gvars, expand>>
    \/ DrainResponse /\ UNCHANGED <<cvars, wvars, gvars, expand>>
    \/ DrainCancel /\ UNCHANGED <<cvars, wvars, gvars, expand>>

SpecFollow == InitFollow /\ [][NextFollow]_vars

\* the steps of the goroutine that called fetchChanges, every page request
\* being answered in the end
FollowSteps == (DrainCheck \/ DrainResponse) /\ UNCHANGED <<cvars, wvars, gvars, expand>>

FairFollow == SpecFollow /\ WF_vars(FollowSteps)

\* one call of expand.FirstLevel
InitExpand ==
    /\ ExpandInit /\ drain = NoDrain
    /\ ClientIdle /\ WatchIdle /\ ChangesIdle

NextExpand ==
    \/ ExpandStart /\ UNCHANGED <<cvars, wvars, gvars, drain>>
    \/ ExpandAcquire /\ UNCHANGED <<cvars, wvars, gvars, drain>>
    \/ ExpandSkip /\ UNCHANGED <<cvars, wvars, gvars, drain>>
    \/ ExpandRetrieve /\ UNCHANGED <<cvars, wvars, gvars, drain>>
    \/ ExpandCancel /\ UNCHANGED <<cvars, wvars, gvars, drain>>
    \/ ExpandWait /\ UNCHANGED <<cvars, wvars, gvars, drain>>

SpecExpand == InitExpand /\ [][NextExpand]_vars

Init ==
    \/ InitClient
    \/ WatchInit /\ ClientIdle /\ ChangesIdle /\ HelpersIdle
    \/ InitChanges
    \/ InitFollow
    \/ InitExpand
Next == NextClient \/ NextHook \/ NextChanges \/ NextFollow \/ NextExpand
Spec == Init /\ [][Next]_vars

(***************************************************************************)
(* Properties of the transport (checked under SpecClient)                  *)
(***************************************************************************)
ClientDone == cpc = "done"

\* a 2xx response whose body decodes (where Do decodes it) and closes
Succeeds(o) ==
    /\ o.kind = "resp"
    /\ o.status >= 200 /\ o.status <= 299
    /\ o.body.shape # "closefail" /\ o.body.shape # "badclosefail"
    /\ (call.hasOut /\ o.status # 204) => o.body.shape # "bad"

\* the loop index at which the latest attempt was made
JustAttempted == hist.attempts = attempt + 1

IntRetryAfter(o) == o.kind = "resp" /\ o.retryAfter.kind = "int"

\* C1: when the attempts before the k-th each ended in a retryable outcome
\* and the k-th succeeds (k <= MaxRetries+1), Do has made exactly k HTTP
\* attempts, has called sleep exactly k-1 times and returns nil.
C1_RetriesUntilSuccess ==
    (hist.attempts >= 1 /\ Succeeds(hist.last)) =>
        /\ ClientDone
        /\ ret = NoErr
        /\ hist.attempts = hist.retryable + 1
        /\ hist.sleeps = hist.attempts - 1
        /\ hist.attempts <= cfg.MaxRetries + 1

C1_Witness ==
    /\ ClientDone /\ Succeeds(hist.last) /\ ret = NoErr
    /\ hist.attempts = 3 /\ hist.sleeps = 2 /\ hist.retryable = 2

\* C3 (as stated): after every 429 with Retry-After: N the sleep lasts
\* exactly N seconds.
C3_AsStated ==
    (cpc = "sleep" /\ hist.last.status = 429 /\ IntRetryAfter(hist.last)) =>
        sleepArg = hist.last.retryAfter.val * Second

\* C3 (amended): after every 429 with Retry-After: N, for N >= 1 and N
\* seconds within the range of a Duration, the sleep lasts exactly N seconds:
\* no jitter, no exponential backoff.
C3_PositiveRetryAfterHonoured ==
    (/\ cpc = "sleep" /\ hist.last.status = 429 /\ IntRetryAfter(hist.last)
     /\ hist.last.retryAfter.val >= 1
     /\ hist.last.retryAfter.val <= MaxDurationSeconds) =>
        sleepArg = hist.last.retryAfter.val * Second

C3_Witness ==
    /\ cpc = "sleep" /\ hist.last.status = 429 /\ IntRetryAfter(hist.last)
    /\ hist.last.retryAfter.val = MaxDurationSeconds
    /\ sleepArg = MaxDurationSeconds * Second
    /\ attempt = 1

Terminal4xx(o) ==
    o.kind = "resp" /\ o.status >= 400 /\ o.status <= 499 /\ o.status # 429

\* C5 (as stated): a 4xx other than 429 ends the call at that attempt (one
\* attempt, no sleep, when it answers the first attempt) with a Structured
\* Error built from that response.
C5_AsStated ==
    (hist.attempts >= 1 /\ Terminal4xx(hist.last)) =>
        /\ ClientDone
        /\ JustAttempted
        /\ hist.sleeps = attempt
        /\ ret.kind = "Error" /\ ret.at = attempt

\* C5 (amended): a 4xx other than 429 ends the call at that attempt (one
\* attempt, no sleep, when it answers the first attempt) with an error built
\* from that response: the Structured Error of its body (the status of the
\* body, or of the response when the body has none or is no JSON object)
\* when the body can be read and closed, else the read or close error.
C5_Terminal4xx ==
    (hist.attempts >= 1 /\ Terminal4xx(hist.last)) =>
        /\ ClientDone
        /\ JustAttempted
        /\ hist.sleeps = attempt
        /\ ret.at = attempt
        /\ CASE hist.last.body.shape = "readfail"  -> ret.kind = "read error response"
             [] hist.last.body.shape = "closefail" -> ret.kind = "close error response"
             [] OTHER ->
                  /\ ret.kind = "Error"
                  /\ ret.status = IF hist.last.body.status # 0
                                  THEN hist.last.body.status ELSE hist.last.status

C5_Witness ==
    /\ ClientDone /\ hist.attempts = 1 /\ hist.sleeps = 0
    /\ hist.last.kind = "resp" /\ hist.last.status = 404
    /\ hist.last.body.shape = "junk"
    /\ ret = Err("Error", 404, 0)

\* C6: a cancellation that fires while Do waits between attempts ends the
\* wait at once (no sleep time passes with the context cancelled), no further
\* HTTP attempt is made, and Do returns a cancellation error.
C6_CancelAbandonsWait ==
    /\ ~hist.sleptCancelled
    /\ hist.cancelAt >= 0 => hist.attempts = hist.cancelAt
    /\ (hist.cancelAt >= 0 /\ ClientDone) => ret.kind = "rate limit wait"

\* C7: every HTTP attempt is preceded by its own successful limiter
\* acquisition, and a failed acquisition returns an error without a request.
C7_AcquireBeforeEachAttempt ==
    /\ hist.acquired = IF cpc = "send" THEN hist.attempts + 1 ELSE hist.attempts
    /\ (ClientDone /\ ret.kind = "rate limit wait") =>
          /\ ret.at = attempt
          /\ hist.attempts = attempt
          /\ hist.acquired = attempt

C7_Witness ==
    /\ ClientDone /\ ret.kind = "rate limit wait" /\ ctxDone
    /\ attempt = 2 /\ hist.attempts = 2 /\ hist.acquired = 2

\* C8: when every attempt ends in a retryable failure (and no limiter wait
\* fails), Do stops after exactly MaxRetries+1 attempts and returns the
\* error of the final attempt; the generic exhausted-retries error needs
\* lastErr to be nil.
C8_ExhaustionReturnsLastError ==
    /\ (/\ ClientDone /\ hist.attempts >= 1 /\ hist.retryable = hist.attempts
        /\ ret.kind # "rate limit wait") =>
          /\ hist.attempts = cfg.MaxRetries + 1
          /\ ret.at = cfg.MaxRetries
          /\ ret.kind = CASE hist.last.kind = "neterr" -> "do request"
                          [] hist.last.body.shape = "readfail" -> "read error response"
                          [] hist.last.body.shape = "closefail" -> "close error response"
                          [] OTHER -> "Error"
    /\ (ClientDone /\ ret.kind = "exhausted retries") => lastErr = NoErr

C8_Witness ==
    /\ ClientDone /\ hist.attempts = cfg.MaxRetries + 1
    /\ hist.retryable = hist.attempts /\ cfg.MaxRetries = defaultMaxRetries
    /\ hist.last.kind = "neterr" /\ ret = Err("do request", 0, defaultMaxRetries)

(***************************************************************************)
(* Properties of sync watch (checked under SpecWatch and SpecPush)         *)
(***************************************************************************)
\* C2: the poll emissions of a run have adjacent windows: every emitted
\* window has until >= since, and the since of every emitted window but the
\* first equals the until of the poll emission before it.
C2_AdjacentWindows ==
    /\ whist.emits >= 1 => whist.lastEmit.until >= whist.lastEmit.since
    /\ whist.emits >= 2 => whist.lastEmit.since = whist.prevEmit.until

\* C9: every page request of the bootstrap (the first Change Query of the
\* run) carries the lower bound under on_or_after, every page request of a
\* later poll carries it under after, and the upper bound is always under
\* on_or_before.
C9_LowerBoundMode ==
    whist.lastQuery # NoQuery =>
        /\ whist.lastQuery.upperKey = "on_or_before"
        /\ whist.lastQuery.poll = 1 => whist.lastQuery.lowerKey = "on_or_after"
        /\ whist.lastQuery.poll > 1 => whist.lastQuery.lowerKey = "after"

C9_Witness ==
    /\ whist.lastQuery # NoQuery
    /\ whist.lastQuery.poll = 3 /\ whist.lastQuery.lowerKey = "after"
    /\ whist.lastQuery.cursor # 0
    /\ whist.emits = 2

\* the ids of set S in ascending order
RECURSIVE Ascending(_)
Ascending(S) ==
    IF S = {} THEN <<>>
    ELSE LET m == CHOOSE x \in S : \A y \in S : x <= y
         IN  <<m>> \o Ascending(S \ {m})

\* the deliveries the event loop has taken from the queue
Taken ==
    Len(whist.hookOut) + (IF wret.kind = "write webhook event" THEN 1 ELSE 0)

QueuedIds == [i \in 1..Len(deliveries) |-> deliveries[i].id]

\* C10: the push queue never holds more than 16 deliveries; every dropped
\* delivery is logged once and leaves the queue as it was (the queue holds,
\* in arrival order, the deliveries that were not dropped and not yet taken);
\* when nothing has been taken, n deliveries leave min(n, 16) queued and the
\* later ones dropped: 20 deliveries leave 16 queued and 4 dropped.
C10_QueueBounded ==
    LET kept == Ascending((1..whist.accepted) \ whist.dropped)
    IN  /\ Len(deliveries) <= 16
        /\ whist.logged = Cardinality(whist.dropped)
        /\ QueuedIds = SubSeq(kept, Taken + 1, Len(kept))
        /\ Taken = 0 =>
              /\ whist.dropped = 17..whist.accepted
              /\ whist.accepted = 20 =>
                    (Len(deliveries) = 16 /\ Cardinality(whist.dropped) = 4)

C10_Witness ==
    /\ whist.accepted = 20 /\ Taken = 0
    /\ Len(deliveries) = 16 /\ whist.logged = 4
    /\ whist.dropped = {17, 18, 19, 20}

\* a run that has returned after the cancellation, with no failure other
\* than the cancellation itself (no query, write or server error)
EndedByCancellation ==
    /\ wpc = "returned" /\ wctxDone
    /\ wret.kind \in {"nil", "watch canceled"}

\* C11: a run that the cancellation signal ends returns no error, also when
\* the signal fires while a poll is in flight.
C11_CancelReturnsNoError ==
    EndedByCancellation => wret = NoErr

\* the polls begun and the events written so far
Activity == <<whist.polls, whist.emits, whist.suppressed, whist.hookOut>>

\* a step taken once a failure has been raised
AfterFailureStep ==
    /\ (whist.pageErrors > 0 \/ errCh # <<>>) => Activity' = Activity
    /\ (errCh # <<>> /\ wpc' = "returned") => wret' = Head(errCh)
    /\ whist'.pageErrors > whist.pageErrors =>
          (wpc' = "returned" /\ wret'.kind = "query data source")
    /\ whist'.dropped # whist.dropped => (wpc' = wpc /\ wret' = wret)

EndOfRunStep ==
    /\ (errCh # <<>> /\ errCh' = <<>>) =>
          (wpc = "loop" /\ wpc' = "returned" /\ wret' = Head(errCh))
    /\ wpc = "returned" => (Activity' = Activity /\ wret' = wret)
    /\ (\/ whist'.accepted # whist.accepted
        \/ whist'.rejected # whist.rejected
        \/ whist'.dropped # whist.dropped) => (wpc' = wpc /\ wret' = wret)

SignedAsClaimed(r) ==
    /\ r.method = "POST" /\ r.readOK
    /\ r.signature.present /\ r.signature.prefixed /\ r.timestamp # ""
    /\ r.signature.mac = HMAC(opts.webhookSecret, r.timestamp, r.body)

\* the request lacks a header or its signature is not that HMAC
BadlySigned(r) ==
    /\ r.method = "POST" /\ r.readOK
    /\ \/ ~r.signature.present
       \/ r.timestamp = ""
       \/ r.signature.mac # HMAC(opts.webhookSecret, r.timestamp, r.body)

Answered(status) == whist'.lastStatus = status

Queued(r) ==
    deliveries' = Append(deliveries, [id |-> whist.accepted + 1, payload |-> r.body])

\* the handler's step on a request of the burst under a configured secret,
\* as the claim has it
SignedStepAsStated ==
    \A r \in BurstRequests :
        (opts.webhookSecret # "" /\ webhookHandler(r)) =>
            /\ SignedAsClaimed(r) => (Answered(StatusOK) /\ Queued(r))
            /\ BadlySigned(r) =>
                  (Answered(StatusUnauthorized) /\ deliveries' = deliveries)

\* C13 (as stated): with a secret configured, a POST signed as claimed is
\* answered 200 and queued, and one whose signature is altered or whose
\* signature or timestamp header is missing is answered 401 and not queued.
C13_AsStated == [][SignedStepAsStated]_vars

\* the handler's step on a request of the burst under a configured secret
SignedStep ==
    \A r \in BurstRequests :
        (opts.webhookSecret # "" /\ webhookHandler(r)) =>
            /\ (SignedAsClaimed(r) /\ readWebhookBody(r.body) = r.body) =>
                  /\ Answered(StatusOK)
                  /\ whist'.accepted = whist.accepted + 1
                  /\ IF Len(deliveries) < webhookQueueSize
                     THEN Queued(r) /\ whist'.dropped = whist.dropped
                     ELSE /\ deliveries' = deliveries
                          /\ whist'.dropped = whist.dropped \cup {whist'.accepted}
            /\ BadlySigned(r) =>
                  /\ Answered(StatusUnauthorized)
                  /\ deliveries' = deliveries
                  /\ whist'.accepted = whist.accepted
                  /\ whist'.dropped = whist.dropped

\* C13 (amended): with a secret configured, a POST signed as claimed (body
\* within the ceiling) is answered 200, and is queued when the queue holds
\* fewer than 16 deliveries and dropped otherwise; one whose signature is
\* not that HMAC or whose signature or timestamp header is missing is
\* answered 401 and neither queued nor dropped.
C13_SignatureDecides == [][SignedStep]_vars

C13_Witness ==
    /\ opts.webhookSecret = "k1"
    /\ whist.accepted = 17 /\ whist.dropped = {17} /\ Len(deliveries) = 16
    /\ whist.rejected = 1 /\ whist.lastStatus = StatusUnauthorized

\* the payload readWebhookBody makes of a body over the ceiling
Truncated == readWebhookBody("B+")

\* C14: a POST whose body exceeds the ceiling is rejected, so that no
\* delivery carrying a truncated payload is ever queued.
C14_OversizeRejected ==
    \A i \in 1..Len(deliveries) : deliveries[i].payload # Truncated

(***************************************************************************)
(* Properties of the Change Query (SpecChanges, SpecWatch)                 *)
(***************************************************************************)
\* the changes command was given a window whose upper bound is not strictly
\* after its lower bound, and has read it
WindowNotAfter ==
    /\ changes.pc # "start"
    /\ changes.sinceArg \notin {NoArg, BadArg} /\ changes.untilArg # BadArg
    /\ changes.until <= changes.since

\* C15: a Change Query whose upper bound is not strictly after its lower
\* bound does not fail on that account: its window collapses to until =
\* since, and when it has ended without a remote failure exactly one page
\* request was issued, with that filter.
C15_WindowCollapses ==
    WindowNotAfter =>
        /\ changes.err.kind # "--until must be after --since"
        /\ changes.pc = "query" =>
              (changes.filter.until = changes.filter.since /\ changes.requests <= 1)
        /\ (changes.pc = "done" /\ changes.err = NoErr) =>
              (changes.filter.until = changes.filter.since /\ changes.requests = 1)

\* the concatenation of the sequences of seqs, in order
RECURSIVE Flatten(_)
Flatten(seqs) ==
    IF seqs = <<>> THEN <<>> ELSE Head(seqs) \o Flatten(Tail(seqs))

\* the drain in progress: what is accumulated is the concatenation of the
\* results received; the k-th response of a query that asks for more carries
\* next cursor k, so the request after k responses carries start cursor k
\* (empty, 0, for the first), and the latest request carried k - 1
DrainInOrder ==
    wpc = "fetch" =>
        /\ fetch.all = Flatten(fetch.got)
        /\ Len(fetch.got) = fetch.pages
        /\ fetch.cursor = fetch.pages
        /\ fetch.pages >= 1 => whist.lastQuery.cursor = fetch.pages - 1

\* the list returned without error
ReturnInOrder ==
    whist.returned.err = "nil" =>
        /\ whist.returned.all = Flatten(whist.returned.got)
        /\ whist.lastQuery.cursor = Len(whist.returned.got) - 1

\* the step of fetchChanges on a response: it asks for another page exactly
\* when the response has has_more and a next cursor, and returns the list
\* otherwise
DrainStep ==
    (wpc = "fetch" /\ ~wctxDone /\ whist'.lastQuery # whist.lastQuery) =>
    \A r \in PageResponses(fetch.pages), written \in BOOLEAN :
        (r.ok /\ fetchPage(r, written)) =>
            IF r.hasMore /\ r.nextCursor # 0
            THEN /\ wpc' = "fetch"
                 /\ fetch'.pages = fetch.pages + 1
                 /\ whist'.returned = whist.returned
            ELSE /\ whist'.returned.err = "nil"
                 /\ Len(whist'.returned.got) = fetch.pages + 1
                 /\ wpc' # "fetch"

\* C16: fetchChanges returns the concatenation of the result pages it
\* fetched, in request order; its first request carries an empty start
\* cursor and each later one the next cursor of the response before it; it
\* stops at the first response without has_more or with an empty next cursor.
C16_PagesInRequestOrder ==
    /\ [](DrainInOrder /\ ReturnInOrder)
    /\ [][DrainStep]_vars

C16_Witness ==
    /\ whist.returned = Returned(<<1, 2>>, "nil", <<<<1>>, <<2>>>>, FALSE)
    /\ whist.lastQuery.cursor = 1
    /\ whist.polls = 2

\* ---- cancellation in the middle of a drain ----

\* fetchChanges returned while ctx was cancelled, after at least one of its
\* page requests had been issued while ctx was not
CancelledMidDrain ==
    /\ whist.returned.ctxDone
    /\ \/ Len(whist.returned.got) >= 1
       \/ whist.returned.err = "query data source"

\* C17 as stated: whenever the cancellation signal fires during a drain,
\* fetchChanges returns the items of the pages already fetched together with
\* a cancellation error.
C17_AsStated ==
    CancelledMidDrain =>
        /\ whist.returned.err = "watch canceled"
        /\ whist.returned.all = Flatten(whist.returned.got)

\* the check at the head of an iteration that finds ctx cancelled returns all
\* the items held, with the error, and the run ends with that error
CancelSeenStep ==
    (wpc = "fetch" /\ wctxDone /\ wpc' # wpc) =>
        /\ whist'.returned = Returned(fetch.all, "watch canceled", fetch.got, TRUE)
        /\ wpc' = "returned"
        /\ wret' = Err("watch canceled", 0, -1)

\* once ctx is cancelled no page request is issued
NoRequestAfterCancel ==
    wctxDone => /\ whist'.lastQuery = whist.lastQuery
                /\ whist'.pageErrors = whist.pageErrors

\* C17: a cancellation found by the check at the head of an iteration makes
\* fetchChanges return the items of the pages already fetched, in order,
\* with the "watch canceled" error, and no page request is issued once the
\* signal has fired; a cancellation that arrives while a page request is in
\* flight is found only if that request succeeds and names a further page.
C17_CancelKeepsItems ==
    /\ [](whist.returned.err = "watch canceled" =>
            /\ whist.returned.all = Flatten(whist.returned.got)
            /\ whist.returned.ctxDone
            /\ wpc = "returned")
    /\ [](whist.returned.ctxDone /\ whist.returned.err = "nil" =>
            whist.returned.all = Flatten(whist.returned.got))
    /\ [](whist.returned.err = "query data source" => whist.returned.all = <<>>)
    /\ [][CancelSeenStep]_vars
    /\ [][NoRequestAfterCancel]_vars

C17_Witness ==
    /\ whist.returned = Returned(<<1>>, "watch canceled", <<<<1>>>>, TRUE)
    /\ wret = Err("watch canceled", 0, -1)
    /\ whist.lastQuery.cursor = 0

\* ---- the push endpoint does not wait for the event loop ----

\* the request passes every check of the handler
PassesVerification(r) ==
    /\ r.method = "POST" /\ r.readOK
    /\ verifySignature(r, readWebhookBody(r.body))

\* the handler's step on a request that passes verification: answered 200,
\* queued or dropped by the length of the queue alone, and nothing of the
\* event loop or of a poll in flight is touched
VerifiedStep ==
    \A r \in BurstRequests :
        (PassesVerification(r) /\ webhookHandler(r)) =>
            /\ Answered(StatusOK)
            /\ whist'.accepted = whist.accepted + 1
            /\ IF Len(deliveries) < webhookQueueSize
               THEN /\ deliveries' = Append(deliveries,
                                            [id |-> whist'.accepted,
                                             payload |-> readWebhookBody(r.body)])
                    /\ whist'.dropped = whist.dropped
               ELSE /\ deliveries' = deliveries
                    /\ whist'.dropped = whist.dropped \cup {whist'.accepted}
            /\ UNCHANGED <<wpc, wret, fetch, lastPollEnd, tickReady, server>>
            /\ whist'.hookOut = whist.hookOut

\* the handler can run to its answer on every request
HandlerNeverBlocks == \A r \in BurstRequests : ENABLED webhookHandler(r)

\* C18: every POST that passes verification is answered 200 in the handler's
\* own step, whether its delivery is queued or dropped, and that step leaves
\* the event loop where it is; the handler can complete in every state in
\* which the listener is up, also with a full queue and with a poll in flight.
C18_HandlerNeverWaits ==
    /\ [](server = "listening" => HandlerNeverBlocks)
    /\ [][VerifiedStep]_vars

\* a delivery dropped and answered 200 while a poll is between two pages and
\* the loop has consumed nothing
C18_Witness ==
    /\ wpc = "fetch" /\ fetch.pages >= 1
    /\ Len(deliveries) = webhookQueueSize
    /\ whist.dropped # {} /\ whist.accepted \in whist.dropped
    /\ whist.lastStatus = StatusOK
    /\ whist.hookOut = <<>>

\* ---- emission and cursor of a successful poll ----

\* the step in which a poll completes with emitPoll returning nil
PollSucceeds == wpc = "fetch" /\ wpc' = "loop"

\* what a successful poll writes: one emission, or none for an empty result
\* under --suppress-empty
EmitsAsConfigured ==
    PollSucceeds =>
        IF opts.suppressEmpty /\ Len(whist'.returned.all) = 0
        THEN whist'.emits = whist.emits /\ whist'.suppressed = whist.suppressed + 1
        ELSE /\ whist'.emits = whist.emits + 1
             /\ whist'.suppressed = whist.suppressed
             /\ whist'.lastEmit = [since |-> fetch.since, until |-> fetch.until,
                                   count |-> Len(whist'.returned.all)]

\* the cursor after a successful poll is the upper bound the poll queried
CursorAtUpperBound ==
    PollSucceeds => (lastPollEnd' = fetch.until /\ lowerExclusiveLB')

\* C19: without --suppress-empty every successful poll writes exactly one
\* poll emission, empty or not; with --suppress-empty it writes one exactly
\* when it returned at least one page; in both cases the cursor advances to
\* the upper bound of that poll.
C19_EmitAndAdvance == [][EmitsAsConfigured /\ CursorAtUpperBound]_vars

\* ---- who moves the watch cursor ----

watchCursor == <<lastPollEnd, lowerExclusiveLB>>

\* C20 as stated: the cursor changes only in the step in which a poll
\* completes successfully.
C20_AsStated == [][watchCursor' # watchCursor => PollSucceeds]_vars

\* the steps that change the cursor: bootstrap setting the lower bound of the
\* first window before its poll, and the completion of a successful poll
CursorMoves ==
    watchCursor' # watchCursor =>
        \/ /\ wpc = "bootstrap" /\ wpc' = "fetch"
           /\ lastPollEnd' = fetch'.since
           /\ lowerExclusiveLB' = lowerExclusiveLB
        \/ PollSucceeds

\* a successful poll takes the cursor to the until its caller read
SuccessMovesCursor ==
    PollSucceeds => watchCursor' = <<fetch.callerUntil, TRUE>>

\* a poll that fails, the handler of a push request and the loop's handling of
\* a delivery leave the cursor alone
OthersKeepCursor ==
    (\/ wpc = "fetch" /\ wpc' = "returned"
     \/ whist'.accepted # whist.accepted
     \/ whist'.rejected # whist.rejected
     \/ deliveries' # deliveries
     \/ whist'.hookOut # whist.hookOut) => watchCursor' = watchCursor

\* C20: apart from bootstrap setting the last polled upper bound to the lower
\* bound of the first window before the first poll, the watch cursor changes
\* only in the step of run's task in which a poll completes successfully; a
\* poll that fails leaves both parts unchanged, and so do the handler of a
\* push request and the loop's handling of a delivery.
C20_CursorMovesOnSuccess ==
    [][CursorMoves /\ SuccessMovesCursor /\ OthersKeepCursor]_vars

\* the second poll failed after a delivery was handled, and the cursor is
\* still where the first poll left it
C20_Witness ==
    /\ wpc = "returned" /\ wret.kind = "query data source"
    /\ whist.polls = 2 /\ whist.emits = 1
    /\ whist.hookOut # <<>>
    /\ watchCursor = <<whist.lastEmit.until, TRUE>>
    /\ lastPollEnd # 0

\* ---- sleeping after the final attempt ----

\* C22: Client.Do is inside c.sleep only when another attempt will follow:
\* it does not sleep after the final permitted attempt.
C22_SleepsOnlyBeforeRetry == cpc = "sleep" => attempt < cfg.MaxRetries

\* ---- the loop after cancellation ----

\* a step taken with ctx cancelled starts no poll and emits no delivery
QuietAfterCancel ==
    wctxDone => /\ whist'.polls = whist.polls
                /\ whist'.hookOut = whist.hookOut

\* C23: once the cancellation signal has fired, the event loop starts no new
\* poll and emits no further push delivery, also when a timer tick or a queued
\* delivery is ready at the same moment.
C23_NothingAfterCancel == [][QuietAfterCancel]_vars

\* ---- deliveries that arrive during a poll ----

\* C24: a push delivery that is queued while a poll is in flight is emitted
\* without waiting for that poll to finish: with a poll in flight and a
\* delivery in the queue, the loop's emission of the delivery can be the
\* next step.
C24_EmittedDuringPoll ==
    (wpc = "fetch" /\ deliveries # <<>>) => ENABLED LoopDelivery

\* ---- from the queue to the output stream ----

\* the webhook events written are, in order, the first of the deliveries
\* that were queued: none twice, none of a dropped or rejected request
EmittedInQueueOrder ==
    LET kept == Ascending((1..whist.accepted) \ whist.dropped)
    IN  /\ Len(whist.hookOut) <= Len(kept)
        /\ whist.hookOut = SubSeq(kept, 1, Len(whist.hookOut))

\* a webhook event is written by the loop, for the head of the queue, which
\* leaves the queue in the same step
EmitStep ==
    whist'.hookOut # whist.hookOut =>
        /\ wpc = "loop" /\ deliveries # <<>>
        /\ whist'.hookOut = Append(whist.hookOut, Head(deliveries).id)
        /\ deliveries' = Tail(deliveries)

\* a delivery leaves the queue only by being written, or by the failed
\* write that ends the run
LeaveStep ==
    (/\ deliveries # <<>>
     /\ IF deliveries' = <<>> THEN TRUE
        ELSE Head(deliveries').id # Head(deliveries).id) =>
        \/ whist'.hookOut = Append(whist.hookOut, Head(deliveries).id)
        \/ wpc' = "returned" /\ wret'.kind = "write webhook event"

\* C25: the webhook events are written in queue order, one for a delivery
\* taken from the queue, never two for one delivery and none for a request
\* that was rejected or dropped; a delivery leaves the queue only by being
\* written (or by the failed write that ends the run), and the queue is
\* emptied in the end unless the run returns first.
C25_EachDeliveryOnce ==
    /\ []EmittedInQueueOrder
    /\ [][EmitStep /\ LeaveStep]_vars
    /\ (deliveries # <<>>) ~> (deliveries = <<>> \/ wpc = "returned")

\* the queue overflowed, and every delivery that was queued has been written
C25_Witness ==
    /\ whist.accepted = MaxDeliveries /\ whist.dropped # {}
    /\ deliveries = <<>>
    /\ whist.hookOut = Ascending((1..whist.accepted) \ whist.dropped)
    /\ wpc = "loop"

\* ---- who writes to the output stream ----

\* the output stream: poll emissions and webhook events written
outputStream == <<whist.emits, whist.lastEmit, whist.hookOut>>

\* a step of an HTTP request handled by the push listener
ListenerStep ==
    \/ whist'.accepted # whist.accepted
    \/ whist'.rejected # whist.rejected

\* a step that writes to the output stream is a step of run's goroutine, at
\* the end of emitPoll or in loop's delivery case, and writes one event
WriterStep ==
    outputStream' # outputStream =>
        /\ ~ListenerStep
        /\ \/ /\ wpc = "fetch"
              /\ whist'.emits = whist.emits + 1
              /\ whist'.hookOut = whist.hookOut
           \/ /\ wpc = "loop"
              /\ whist'.emits = whist.emits
              /\ Len(whist'.hookOut) = Len(whist.hookOut) + 1

\* the listener's step leaves the output stream, the cursor and the poll in
\* flight alone; of the queue it changes nothing or appends one delivery
QueueOnlyStep ==
    ListenerStep =>
        /\ outputStream' = outputStream
        /\ UNCHANGED <<lastPollEnd, lowerExclusiveLB, fetch, wpc, wret>>
        /\ whist'.polls = whist.polls /\ whist'.suppressed = whist.suppressed
        /\ \/ deliveries' = deliveries
           \/ /\ Len(deliveries) < webhookQueueSize
              /\ Len(deliveries') = Len(deliveries) + 1
              /\ SubSeq(deliveries', 1, Len(deliveries)) = deliveries

\* C26: every write to the output stream, poll emission or webhook event, is
\* a step of the one goroutine that runs bootstrap and loop and writes one
\* event; the push listener writes to the bounded queue only, never to the
\* output stream or to the watch cursor.
C26_SingleWriter == [][WriterStep /\ QueueOnlyStep]_vars

\* both kinds of event written in a run in which the listener queued a
\* delivery
C26_Witness ==
    /\ whist.emits = 2 /\ whist.hookOut = <<1>>
    /\ whist.accepted = 1 /\ deliveries = <<>>

\* ---- 2xx responses ----

\* the latest attempt of the call was answered with a 2xx status
LastIs2xx ==
    /\ hist.last.kind = "resp"
    /\ hist.last.status >= StatusOK /\ hist.last.status < StatusMultipleChoices

\* Do decodes the body of that response
Decodes == call.hasOut /\ hist.last.status # StatusNoContent

\* C27 as stated: a 2xx response whose body fails to decode ends Do with a
\* decode error; a 204 response, or a call with no decode target, returns
\* success.
C27_AsStated ==
    (cpc = "done" /\ LastIs2xx) =>
        IF Decodes
        THEN hist.last.body.shape \in {"bad", "badclosefail"} =>
                ret.kind \in {"decode response", "joined close response body"}
        ELSE ret = NoErr

\* C27: a 2xx response ends Do after that attempt, with no retry and no
\* sleep after it.  If its body is decoded and fails to decode, Do returns
\* the decode error (joined with the close error if closing the body fails
\* too).  A 204 response, or a call with no decode target, is not decoded:
\* Do returns nil, unless closing the response body fails, when it returns
\* the close error.
C27_SuccessEndsCall ==
    LastIs2xx =>
        /\ cpc = "done"
        /\ hist.sleeps = hist.attempts - 1
        /\ ret.kind # "nil" => ret.at = hist.attempts - 1
        /\ IF Decodes /\ hist.last.body.shape = "bad"
           THEN ret.kind = "decode response"
           ELSE IF Decodes /\ hist.last.body.shape = "badclosefail"
           THEN ret.kind = "joined close response body"
           ELSE IF hist.last.body.shape \in {"closefail", "badclosefail"}
           THEN ret.kind = "close response body"
           ELSE ret = NoErr

\* a retried call whose second attempt is answered 200 with a body that does
\* not decode
C27_Witness ==
    /\ cpc = "done" /\ call.hasOut
    /\ hist.last = Resp(StatusOK, NoHeader, Body("bad", 0))
    /\ ret = Err("decode response", 0, 1)
    /\ hist.attempts = 2 /\ hist.sleeps = 1

\* ---- the request body of a retry ----

\* C28: every HTTP attempt of a call sends the serialized body from its first
\* byte: whenever Do is about to send, the reader of a call with a body is at
\* the first byte, and so it was at every attempt made.
C28_BodyReplayed ==
    /\ hist.sentAtStart
    /\ (cpc = "send" /\ call.hasBody) => bodyAtStart

\* a call with a body has made a first attempt and a retry
C28_Witness ==
    /\ call.hasBody /\ hist.attempts >= 2 /\ ~bodyAtStart
    /\ hist.sentAtStart

\* ---- monotonicity of the cursor ----

\* C29: the watch cursor never moves backwards: after every successful poll
\* the recorded upper bound is at least what it was before the poll.
C29_CursorMonotonic == [][PollSucceeds => lastPollEnd' >= lastPollEnd]_vars

\* ---- the exits of the drain ----

\* the latest response ends the drain: no has_more, or an empty next cursor
StopResponse ==
    drain.last.ok /\ ~(drain.last.hasMore /\ drain.last.nextCursor # 0)

\* C30 as stated: the drain has no exit other than a response without
\* has_more or with an empty next cursor, and the cancellation signal.
C30_AsStated ==
    drain.pc = "returned" =>
        \/ drain.ret.err = "nil" /\ StopResponse
        \/ drain.ret.err = "watch canceled" /\ drain.ctxDone

\* the exits of fetchChanges once in its loop
DrainExits ==
    drain.pc = "returned" =>
        \/ drain.ret.err = "nil" /\ StopResponse
        \/ drain.ret.err = "watch canceled" /\ drain.ctxDone
        \/ drain.ret.err = "query data source" /\ ~drain.last.ok /\ drain.last # NoPage

\* a response that ends the drain, and a failed request, are returned on at
\* once; any other response is followed by the check of ctx and, with ctx
\* live, by the request of the cursor it named, however many requests were
\* made and whether or not the cursor is one that was sent before
DrainFollows ==
    /\ (drain.last # NoPage /\ (StopResponse \/ ~drain.last.ok)) =>
          drain.pc = "returned"
    /\ (drain.pc = "head" /\ drain.requests > 0) => drain.cursor = drain.last.nextCursor
    /\ drain.pc # "returned" => ENABLED (DrainCheck \/ DrainResponse)
    /\ drain.pc = "request" =>
          \A c \in 1..MaxCursor :
              ENABLED (DrainResponse /\ drain'.pc = "head" /\ drain'.cursor = c)

\* C30: fetchChanges leaves its loop on a response without has_more or with
\* an empty next cursor, on finding the cancellation signal fired at the
\* head of an iteration, and on a failed page request, and in no other way:
\* any other response is followed, without a limit on the pages and also
\* when it repeats a cursor.  When the signal has fired, and every request
\* is answered, the drain returns.
C30_DrainExits ==
    /\ [](DrainExits /\ DrainFollows)
    /\ drain.ctxDone ~> (drain.pc = "returned")

\* more requests than the count holds, after a response that named the
\* cursor it was asked for, and the drain goes on
C30_Witness ==
    /\ drain.pc = "request" /\ ~drain.ctxDone
    /\ drain.requests = DrainCap /\ drain.all = DrainCap
    /\ drain.repeated

\* a call of fetchChanges returns in the end
DrainReturns == <>(drain.pc = "returned")

\* ---- expand.FirstLevel: one retrieval for every related page ----

\* the related page ids the pages of the call reference through the
\* properties of relation type
Referenced ==
    LET refs == relationRefs(expand.input.pages, expand.input.properties)
    IN  {refs[i].relationID : i \in 1..Len(refs)}

\* the references of page i through the property called name
ReferencedBy(i, name) ==
    LET refs == relationRefs(expand.input.pages, expand.input.properties)
    IN  {refs[j].relationID :
            j \in {x \in 1..Len(refs) :
                     /\ refs[x].pageIdx = i
                     /\ <<refs[x].propertyID, name>> \in propByID(expand.input.properties)}}

\* every page has, under every property name, each related page it
\* references once and no other
AllExpanded ==
    \A i \in 1..Len(expand.input.pages), name \in PropNames :
        LET bucket == expand.expanded[i][name]
        IN  /\ {bucket[j] : j \in 1..Len(bucket)} = ReferencedBy(i, name)
            /\ Len(bucket) = Cardinality(ReferencedBy(i, name))

\* C21 as stated: a call of FirstLevel retrieves each distinct related page
\* id exactly once and every referencing page receives that page.
C21_AsStated ==
    expand.pc = "done" =>
        /\ \A id \in RelIds : expand.requests[id] = IF id \in Referenced THEN 1 ELSE 0
        /\ AllExpanded

\* C21: whatever the interleaving, FirstLevel retrieves no related page id
\* twice and none that is not referenced, with at most defaultConcurrency
\* retrievals in flight; when every retrieval succeeds it has retrieved each
\* distinct id exactly once and every referencing page has received that
\* page, once, under the property that references it; when a retrieval
\* fails or the context is found cancelled it returns the error and expands
\* nothing, and ids may not have been retrieved at all.
C21_OneRetrievalPerId ==
    /\ \A id \in RelIds : /\ expand.requests[id] <= 1
                          /\ expand.requests[id] = 1 => id \in Referenced
    /\ Holding <= defaultConcurrency
    /\ (expand.pc = "done" /\ expand.err = "nil") =>
          /\ \A id \in Referenced : expand.requests[id] = 1
          /\ AllExpanded
    /\ (expand.pc = "done" /\ expand.err # "nil") =>
          /\ expand.expanded = NoneExpanded(expand.input.pages)
          /\ expand.err = "expand relations"
          /\ expand.firstErr # ""

\* more related pages than defaultConcurrency, shared between two pages
\* and two properties, all retrieved and expanded
C21_Witness ==
    /\ expand.pc = "done" /\ expand.err = "nil"
    /\ Referenced = RelIds
    /\ \A id \in RelIds : expand.requests[id] = 1
    /\ expand.expanded[2] = [A |-> <<MaxRelIds, 1>>, B |-> <<2>>]
    /\ expand.expanded[1]["A"] = AllRelIds
====
